---- MODULE Spec2Model ----
(***************************************************************************)
(* State-machine model of the ATS server: the Express routes of            *)
(* server/routes.ts (session authentication, role gate, handlers) over the *)
(* DatabaseStorage persistence layer of server/storage-db.ts.              *)
(*                                                                         *)
(* A request occupies a slot of reqs.  The synchronous prefix of a handler *)
(* (middleware, parameter parsing) is the Begin step; every awaited        *)
(* database round trip of the candidate-creation and stage-move handlers   *)
(* is a step of its own, so that requests interleave exactly where the     *)
(* code can be suspended.  The remaining handlers run as one step.         *)
(***************************************************************************)
EXTENDS Integers, Sequences, FiniteSets, TLC

VARIABLES
  users,                 \* table users: id -> row (domain = ids present)
  userSeq,               \* serial sequence of users.id
  sessions,              \* session store: session id -> [userId, role]
  requirements,          \* table requirements (row i has id i)
  stages,                \* table stages
  candidates,            \* table candidates
  stageHistory,          \* table stage_history, in insertion order
  interviews,            \* table interviews
  feedback,              \* table feedback
  comments,              \* table comments
  requirementRecruiters, \* table requirement_recruiters: the set of its rows
  rrSeq,                 \* serial sequence of requirement_recruiters.id
  reqs,                  \* request slots: locals of the handler and its response
  entry                  \* history variable: the latest request's slot, and the tables when it began

vars == <<users, userSeq, sessions, requirements, stages, candidates,
          stageHistory, interviews, feedback, comments,
          requirementRecruiters, rrSeq, reqs, entry>>

\* Everything the server persists outside the session store.
db == <<users, userSeq, requirements, stages, candidates, stageHistory,
        interviews, feedback, comments, requirementRecruiters, rrSeq>>

\* The tables as one value.
Tables ==
  [users |-> users, userSeq |-> userSeq, requirements |-> requirements,
   stages |-> stages, candidates |-> candidates, stageHistory |-> stageHistory,
   interviews |-> interviews, feedback |-> feedback, comments |-> comments,
   requirementRecruiters |-> requirementRecruiters, rrSeq |-> rrSeq]

-----------------------------------------------------------------------------
(* Bounds of the model *)

MaxCandidates == 2
MaxHistory == 3
\* The largest users.id handed out.
MaxUsers == 4
\* Rows inserted by the one-step handlers, over all their tables.
MaxRows == 1
MaxAssignments == 3
MaxInterviews == 2

-----------------------------------------------------------------------------
(* Values *)

\* JavaScript undefined / SQL NULL of an integer: ids are serial, from 1.
NoId == 0
\* parseInt() of a non-numeric path parameter, or a body field that is absent.
NaN == -1
\* SQL NULL / undefined of a text value (distinct from the empty string).
NULL == "NULL"

Sessions == {"s1", "s2"}
Slots == {"r1", "r2"}

Roles == {"admin", "manager", "recruiter"}

Range(f) == {f[x] : x \in DOMAIN f}

NoSession == [userId |-> NoId, role |-> ""]

-----------------------------------------------------------------------------
(* DatabaseStorage: reads return the selected rows, as the driver does;    *)
(* `const [row] = await db.select()...` is undefined iff the set is empty. *)

getUser(id) == {users[u] : u \in {v \in DOMAIN users : v = id}}

getUserByUsername(username) == {u \in Range(users) : u.username = username}

\* Mutation: the SELECT without its WHERE clause.
getRequirementNoWhere(id) == Range(requirements)

getRequirement(id) == {q \in Range(requirements) : q.id = id}

\* Mutation: the SELECT without its WHERE clause.
getStageNoWhere(id) == Range(stages)

getStage(id) == {st \in Range(stages) : st.id = id}

getCandidate(id) == {c \in Range(candidates) : c.id = id}

createCandidate(data) ==
  Append(candidates, [id |-> Len(candidates) + 1,
                      currentStageId |-> data.currentStageId,
                      requirementId |-> data.requirementId,
                      status |-> "active"])

\* The latest clock reading stored in stage_history (0 before the first).
Latest ==
  IF stageHistory = <<>> THEN 0
  ELSE CHOOSE t \in {h.movedAt : h \in Range(stageHistory)} :
         \A h \in Range(stageHistory) : h.movedAt <= t

\* moved_at DEFAULT now(): what the clock may read at an insert.  The clock
\* does not run backwards, and it need not have advanced since it was last read.
Clock == {Latest, Latest + 1}

\* SELECT ... WHERE candidate_id = ? ORDER BY moved_at, then sorted again with
\* the most recent first: every order of the candidate's rows in which moved_at
\* never increases (nothing orders two rows that have the same moved_at).
getStageHistory(candidateId) ==
  LET rows == {h \in Range(stageHistory) : h.candidateId = candidateId}
      n == Cardinality(rows)
  IN  {q \in [1..n -> rows] :
         /\ \A i, j \in 1..n : i # j => q[i] # q[j]
         /\ \A i, j \in 1..n : i < j => q[i].movedAt >= q[j].movedAt}

\* Mutation: an insert that skips a transition already on record.
createStageHistoryOnce(data, now) ==
  IF \E h \in Range(stageHistory) :
       /\ h.candidateId = data.candidateId
       /\ h.fromStageId = data.fromStageId
       /\ h.toStageId = data.toStageId
    THEN stageHistory
    ELSE Append(stageHistory, [id |-> Len(stageHistory) + 1,
                               candidateId |-> data.candidateId,
                               fromStageId |-> data.fromStageId,
                               toStageId |-> data.toStageId,
                               movedBy |-> data.movedBy,
                               movedAt |-> now,
                               comments |-> data.comments])

\* INSERT INTO stage_history ... RETURNING; now is the clock reading of
\* the column default.
createStageHistory(data, now) ==
  Append(stageHistory, [id |-> Len(stageHistory) + 1,
                        candidateId |-> data.candidateId,
                        fromStageId |-> data.fromStageId,
                        toStageId |-> data.toStageId,
                        movedBy |-> data.movedBy,
                        movedAt |-> now,
                        comments |-> data.comments])

\* `comments || null`: every falsy comment (undefined, "") is stored as NULL.
OrNull(text) == IF text = "" \/ text = NULL THEN NULL ELSE text

\* Mutation: the UPDATE without its WHERE clause.
setCurrentStageNoWhere(id, stageId) ==
  [i \in DOMAIN candidates |-> [candidates[i] EXCEPT !.currentStageId = stageId]]

\* The UPDATE of updateCandidateStage: only currentStageId of the rows with that id.
setCurrentStage(id, stageId) ==
  [i \in DOMAIN candidates |->
     IF candidates[i].id = id
       THEN [candidates[i] EXCEPT !.currentStageId = stageId]
       ELSE candidates[i]]

\* `const { password: _, ...userWithoutPassword } = user`
\* Mutation: the user as stored, password included.
WithPassword(u) == u

WithoutPassword(u) == [id |-> u.id, username |-> u.username, role |-> u.role]

createUser(data) ==
  userSeq :> [id |-> userSeq, username |-> data.username,
              password |-> data.password,
              role |-> IF data.role = NULL THEN "recruiter" ELSE data.role]
    @@ users

\* UPDATE users SET <the fields of the body> WHERE id = ...
updateUser(id, data) ==
  [users EXCEPT ![id] =
     [id |-> @.id,
      username |-> IF data.username = NULL THEN @.username ELSE data.username,
      password |-> IF data.password = NULL THEN @.password ELSE data.password,
      role |-> IF data.role = NULL THEN @.role ELSE data.role]]

deleteUser(id) == [u \in DOMAIN users \ {id} |-> users[u]]

createRequirement(data) ==
  Append(requirements,
         [id |-> Len(requirements) + 1,
          status |-> IF data.status = NULL THEN "draft" ELSE data.status,
          priority |-> IF data.priority = NULL THEN "medium" ELSE data.priority,
          createdBy |-> data.createdBy])

\* Mutation: an update that leaves a closed requirement closed.
updateRequirementStatusUnlessClosed(id, status) ==
  [i \in DOMAIN requirements |->
     IF requirements[i].id = id /\ requirements[i].status # "closed"
       THEN [requirements[i] EXCEPT !.status = status]
       ELSE requirements[i]]

updateRequirementStatus(id, status) ==
  [i \in DOMAIN requirements |->
     IF requirements[i].id = id
       THEN [requirements[i] EXCEPT !.status = status]
       ELSE requirements[i]]

\* SELECT ... ORDER BY "order"
getStages == SortSeq(stages, LAMBDA a, b : a.order < b.order)

createStage(data) ==
  Append(stages, [id |-> Len(stages) + 1, order |-> data.order])

getInterview(id) == {i \in Range(interviews) : i.id = id}

createInterview(data) ==
  Append(interviews,
         [id |-> Len(interviews) + 1, candidateId |-> data.candidateId,
          requirementId |-> data.requirementId,
          scheduledTime |-> data.scheduledTime,
          status |-> IF data.status = NULL THEN "scheduled" ELSE data.status])

updateInterviewStatus(id, status) ==
  [i \in DOMAIN interviews |->
     IF interviews[i].id = id
       THEN [interviews[i] EXCEPT !.status = status]
       ELSE interviews[i]]

createFeedback(data) ==
  Append(feedback, [id |-> Len(feedback) + 1, interviewId |-> data.interviewId,
                    providedBy |-> data.providedBy])

createComment(data) ==
  Append(comments, [id |-> Len(comments) + 1, candidateId |-> data.candidateId,
                    userId |-> data.userId])

\* The join of requirement_recruiters with users, by requirement.
getRequirementRecruiters(requirementId) ==
  {WithoutPassword(users[a.recruiterId]) :
     a \in {b \in requirementRecruiters :
              b.requirementId = requirementId /\ b.recruiterId \in DOMAIN users}}

createRequirementRecruiter(data) ==
  requirementRecruiters \cup
    {[id |-> rrSeq, requirementId |-> data.requirementId,
      recruiterId |-> data.recruiterId]}

\* db.delete(...).where(eq(requirementId)).where(eq(recruiterId)): each
\* where() of the query builder replaces the condition set before it, so
\* the statement that runs is DELETE ... WHERE recruiter_id = recruiterId.
deleteRequirementRecruiter(requirementId, recruiterId) ==
  {a \in requirementRecruiters : a.recruiterId # recruiterId}

-----------------------------------------------------------------------------
(* Seed data (scripts/seed.ts) *)

SeedUsers ==
  [i \in 1..3 |->
     [id |-> i,
      username |-> <<"admin", "manager", "recruiter">>[i],
      password |-> <<"admin123", "manager123", "recruiter123">>[i],
      role |-> <<"admin", "manager", "recruiter">>[i]]]

\* The first stages of the seeded pipeline.
SeedStages == <<[id |-> 1, order |-> 1], [id |-> 2, order |-> 2]>>

-----------------------------------------------------------------------------
(* Middleware *)

\* next()
Pass == 0

\* Mutation: an authenticator that lets every request through.
isAuthenticatedAlways(s) == TRUE

isAuthenticated(s) == sessions[s].userId # NoId

\* Mutation: a role gate that lets every role through.
hasRoleAny(roles, s) ==
  IF sessions[s].userId = NoId \/ sessions[s].role = "" THEN 401 ELSE Pass

\* hasRole(roles): 401 without userId or role in the session, 403 when the
\* session role is not listed.
hasRole(roles, s) ==
  IF sessions[s].userId = NoId \/ sessions[s].role = "" THEN 401
  ELSE IF sessions[s].role \notin roles THEN 403
  ELSE Pass

\* The role lists of the routes registered with hasRole([...]).
Allowed ==
  [route \in {"GET /api/users", "POST /api/users", "PATCH /api/users/:id",
               "DELETE /api/users/:id", "POST /api/requirements",
               "PATCH /api/requirements/:id/status",
               "POST /api/requirements/:id/recruiters",
               "DELETE /api/requirements/:id/recruiters/:recruiterId",
               "POST /api/stages"} |->
     IF route \in {"POST /api/users", "PATCH /api/users/:id",
                    "DELETE /api/users/:id"}
       THEN {"admin"}
       ELSE {"admin", "manager"}]

\* The routes registered with isAuthenticated alone.
AuthenticatedOnly ==
  {"GET /api/requirements", "GET /api/requirements/:id", "GET /api/stages",
   "GET /api/candidates", "GET /api/candidates/:id", "POST /api/candidates",
   "PATCH /api/candidates/:id/stage", "GET /api/candidates/:id/history",
   "GET /api/interviews", "POST /api/interviews",
   "PATCH /api/interviews/:id/status", "GET /api/interviews/:id/feedback",
   "POST /api/feedback", "GET /api/candidates/:id/comments",
   "POST /api/comments", "GET /api/dashboard/stats"}

\* The routes registered without middleware.
Open == {"POST /api/auth/login", "POST /api/auth/logout", "GET /api/auth/me"}

\* The middleware chain of a route: isAuthenticated, then hasRole if registered.
Guard(route, s) ==
  IF route \in Open THEN Pass
  ELSE IF ~isAuthenticated(s) THEN 401
  ELSE IF route \in DOMAIN Allowed THEN hasRole(Allowed[route], s)
  ELSE Pass

Denial(code) ==
  IF code = 401 THEN [message |-> "Unauthorized"]
                ELSE [message |-> "Forbidden: Insufficient permissions"]

-----------------------------------------------------------------------------
(* Request slots *)

Idle == [pc |-> "idle", route |-> "", sid |-> "", userId |-> NoId,
         username |-> "", password |-> "",
         id |-> NoId, stageId |-> NoId, requirementId |-> NoId,
         comments |-> NULL, value |-> NULL, author |-> NoId, found |-> FALSE,
         previousStageId |-> NoId,
         seen |-> [candidates |-> <<>>, requirements |-> <<>>,
                   stages |-> <<>>, interviews |-> <<>>],
         row |-> [id |-> NoId], status |-> 0, body |-> [message |-> ""]]

Free(r) == reqs[r].pc \in {"idle", "done"}

InFlight == {r \in Slots : ~Free(r)}

Quiescent == InFlight = {}

\* A request as it arrives: the route, the session of its cookie, and
\* req.session.userId as loaded for this request.
Arrive(route, s) ==
  [Idle EXCEPT !.route = route, !.sid = s, !.userId = sessions[s].userId]

\* res.status(code).json(body): the handler is finished.
Respond(q, code, body) ==
  [q EXCEPT !.pc = "done", !.status = code, !.body = body]

Finish(r, code, body) == Respond(reqs[r], code, body)

Message(text) == [message |-> text]

\* Room for the rows the requests in flight may still write.
RoomForHistory == Len(stageHistory) + Cardinality(InFlight) < MaxHistory

RoomForCandidate ==
  Len(candidates)
    + Cardinality({r \in InFlight : reqs[r].route = "POST /api/candidates"})
    < MaxCandidates

dataUnchanged ==
  UNCHANGED <<users, userSeq, sessions, requirements, stages, interviews,
              feedback, comments, requirementRecruiters, rrSeq>>

\* A database round trip of a handler in flight is not the start of a request.
stepUnchanged == dataUnchanged /\ UNCHANGED entry

-----------------------------------------------------------------------------
(* POST /api/candidates *)

\* isAuthenticated, insertCandidateSchema.parse, then the first query is issued.
PostCandidates(r, s, body) ==
  /\ Free(r)
  /\ LET q == [Arrive("POST /api/candidates", s) EXCEPT
                  !.requirementId = body.requirementId,
                  !.stageId = body.currentStageId]
     IN reqs' = [reqs EXCEPT ![r] =
          IF Guard("POST /api/candidates", s) # Pass
            THEN Respond(q, Guard("POST /api/candidates", s),
                         Denial(Guard("POST /api/candidates", s)))
          ELSE IF body.requirementId = NaN \/ body.currentStageId = NaN
            THEN Respond(q, 400, Message("Validation error"))
          ELSE [q EXCEPT !.pc = "getRequirement"]]
  /\ (isAuthenticated(s) /\ body.requirementId # NaN /\ body.currentStageId # NaN)
       => (RoomForCandidate /\ RoomForHistory)
  /\ UNCHANGED <<candidates, stageHistory>>
  /\ dataUnchanged

\* await storage.getRequirement(candidateData.requirementId)
PostCandidatesGetRequirement(r) ==
  /\ reqs[r].pc = "getRequirement"
  /\ reqs' = [reqs EXCEPT ![r].pc = "getStage",
                          ![r].found = getRequirement(reqs[r].requirementId) # {}]
  /\ UNCHANGED <<candidates, stageHistory>>
  /\ stepUnchanged

\* await storage.getStage(candidateData.currentStageId), then both checks
PostCandidatesGetStage(r) ==
  /\ reqs[r].pc = "getStage"
  /\ reqs[r].route = "POST /api/candidates"
  /\ reqs' = [reqs EXCEPT ![r] =
       IF ~reqs[r].found
         THEN Finish(r, 400, Message("Invalid requirement ID"))
       ELSE IF getStage(reqs[r].stageId) = {}
         THEN Finish(r, 400, Message("Invalid stage ID"))
       ELSE [reqs[r] EXCEPT !.pc = "createCandidate"]]
  /\ UNCHANGED <<candidates, stageHistory>>
  /\ stepUnchanged

\* await storage.createCandidate(candidateData)
PostCandidatesCreate(r) ==
  /\ reqs[r].pc = "createCandidate"
  /\ candidates' = createCandidate([currentStageId |-> reqs[r].stageId,
                                    requirementId |-> reqs[r].requirementId])
  /\ reqs' = [reqs EXCEPT ![r].pc = "createStageHistory",
                          ![r].row = candidates'[Len(candidates')]]
  /\ UNCHANGED stageHistory
  /\ stepUnchanged

\* await storage.createStageHistory({... fromStageId: null ...}); 201
PostCandidatesHistory(r) ==
  /\ reqs[r].pc = "createStageHistory"
  /\ reqs[r].route = "POST /api/candidates"
  /\ \E now \in Clock :
       stageHistory' = createStageHistory(
         [candidateId |-> reqs[r].row.id, fromStageId |-> NoId,
          toStageId |-> reqs[r].stageId, movedBy |-> reqs[r].userId,
          comments |-> "Initial application"], now)
  /\ reqs' = [reqs EXCEPT ![r] = Finish(r, 201, reqs[r].row)]
  /\ UNCHANGED candidates
  /\ stepUnchanged

-----------------------------------------------------------------------------
(* PATCH /api/candidates/:id/stage *)

\* isAuthenticated, parseInt(req.params.id), the stageId check, then getStage is issued.
PatchCandidateStage(r, s, id, stageId, text) ==
  /\ Free(r)
  /\ LET q == [Arrive("PATCH /api/candidates/:id/stage", s) EXCEPT
                  !.id = id, !.stageId = stageId, !.comments = text]
     IN reqs' = [reqs EXCEPT ![r] =
          IF Guard("PATCH /api/candidates/:id/stage", s) # Pass
            THEN Respond(q, Guard("PATCH /api/candidates/:id/stage", s),
                         Denial(Guard("PATCH /api/candidates/:id/stage", s)))
          ELSE IF id = NaN
            THEN Respond(q, 400, Message("Invalid ID"))
          ELSE IF stageId = NoId \/ stageId = NaN
            THEN Respond(q, 400, Message("Invalid stage ID"))
          ELSE [q EXCEPT !.pc = "getStage"]]
  /\ (isAuthenticated(s) /\ id # NaN /\ stageId # NoId /\ stageId # NaN)
       => RoomForHistory
  /\ UNCHANGED <<candidates, stageHistory>>
  /\ dataUnchanged

\* Mutation: a move that is refused when the candidate is already in the stage.
PatchCandidateStageGetStageChanged(r) ==
  /\ reqs[r].pc = "getStage"
  /\ reqs[r].route = "PATCH /api/candidates/:id/stage"
  /\ reqs' = [reqs EXCEPT ![r] =
       IF getStage(reqs[r].stageId) = {}
            \/ \E c \in getCandidate(reqs[r].id) : c.currentStageId = reqs[r].stageId
         THEN Finish(r, 400, Message("Stage not found"))
         ELSE [reqs[r] EXCEPT !.pc = "selectCandidate"]]
  /\ UNCHANGED <<candidates, stageHistory>>
  /\ stepUnchanged

\* await storage.getStage(parseInt(stageId)); 400 when there is no such stage
PatchCandidateStageGetStage(r) ==
  /\ reqs[r].pc = "getStage"
  /\ reqs[r].route = "PATCH /api/candidates/:id/stage"
  /\ reqs' = [reqs EXCEPT ![r] =
       IF getStage(reqs[r].stageId) = {}
         THEN Finish(r, 400, Message("Stage not found"))
         ELSE [reqs[r] EXCEPT !.pc = "selectCandidate"]]
  /\ UNCHANGED <<candidates, stageHistory>>
  /\ stepUnchanged

\* updateCandidateStage: the SELECT; undefined (404) when the candidate is absent
updateCandidateStageSelect(r) ==
  /\ reqs[r].pc = "selectCandidate"
  /\ reqs' = [reqs EXCEPT ![r] =
       IF getCandidate(reqs[r].id) = {}
         THEN Finish(r, 404, Message("Candidate not found"))
         ELSE [reqs[r] EXCEPT
                 !.pc = "updateCandidate",
                 !.previousStageId =
                    (CHOOSE c \in getCandidate(reqs[r].id) : TRUE).currentStageId]]
  /\ UNCHANGED <<candidates, stageHistory>>
  /\ stepUnchanged

\* updateCandidateStage: the UPDATE ... RETURNING
updateCandidateStageUpdate(r) ==
  /\ reqs[r].pc = "updateCandidate"
  /\ candidates' = setCurrentStage(reqs[r].id, reqs[r].stageId)
  /\ reqs' = [reqs EXCEPT ![r].pc = "createStageHistory",
                          ![r].row = candidates'[reqs[r].id]]
  /\ UNCHANGED stageHistory
  /\ stepUnchanged

\* Mutation: a move that rewrites the latest history row instead of adding one.
updateCandidateStageHistoryRewrite(r) ==
  /\ reqs[r].pc = "createStageHistory"
  /\ reqs[r].route = "PATCH /api/candidates/:id/stage"
  /\ stageHistory' =
       [stageHistory EXCEPT ![Len(stageHistory)] =
          [@ EXCEPT !.candidateId = reqs[r].id,
                    !.fromStageId = reqs[r].previousStageId,
                    !.toStageId = reqs[r].stageId,
                    !.movedBy = reqs[r].userId]]
  /\ reqs' = [reqs EXCEPT ![r] = Finish(r, 200, reqs[r].row)]
  /\ UNCHANGED candidates
  /\ stepUnchanged

\* updateCandidateStage: createStageHistory, then the route answers 200
updateCandidateStageHistory(r) ==
  /\ reqs[r].pc = "createStageHistory"
  /\ reqs[r].route = "PATCH /api/candidates/:id/stage"
  /\ \E now \in Clock :
       stageHistory' = createStageHistory(
         [candidateId |-> reqs[r].id, fromStageId |-> reqs[r].previousStageId,
          toStageId |-> reqs[r].stageId, movedBy |-> reqs[r].userId,
          comments |-> OrNull(reqs[r].comments)], now)
  /\ reqs' = [reqs EXCEPT ![r] = Finish(r, 200, reqs[r].row)]
  /\ UNCHANGED candidates
  /\ stepUnchanged

\* Mutation: a failing insert that also undoes the update of the candidate.
updateCandidateStageHistoryFailsRollback(r) ==
  /\ reqs[r].pc = "createStageHistory"
  /\ reqs[r].route = "PATCH /api/candidates/:id/stage"
  /\ candidates' = setCurrentStage(reqs[r].id, reqs[r].previousStageId)
  /\ reqs' = [reqs EXCEPT ![r] = Finish(r, 500, Message("Internal server error"))]
  /\ UNCHANGED stageHistory
  /\ stepUnchanged

\* updateCandidateStage: the insert into stage_history is rejected (the
\* database is unreachable, the process is stopping).  The exception reaches
\* the catch of the route, which answers 500; the update of the candidate,
\* made by the statement before, stays.
updateCandidateStageHistoryFails(r) ==
  /\ reqs[r].pc = "createStageHistory"
  /\ reqs[r].route = "PATCH /api/candidates/:id/stage"
  /\ reqs' = [reqs EXCEPT ![r] = Finish(r, 500, Message("Internal server error"))]
  /\ UNCHANGED <<candidates, stageHistory>>
  /\ stepUnchanged

-----------------------------------------------------------------------------
(* The handlers that run as one step *)

\* The middleware's rejection, or else the handler's answer.
Reply(r, q, code, body) ==
  reqs' = [reqs EXCEPT ![r] =
             IF Guard(q.route, q.sid) # Pass
               THEN Respond(q, Guard(q.route, q.sid), Denial(Guard(q.route, q.sid)))
               ELSE Respond(q, code, body)]

\* A JSON array in a response.
Items(rows) == [items |-> rows]

\* The rows of the tables that the one-step handlers insert into.
Rows ==
  Len(requirements) + Len(stages) + Len(interviews) + Len(feedback)
    + Len(comments)

\* Room for one more row on top of the seeded stages.
RoomForRow == Rows < Len(SeedStages) + MaxRows

\* The middleware lets the request of session s on the route through.
Admits(route, s) == Guard(route, s) = Pass

\* Mutation: a login that does not compare the password.
PasswordIgnored(user, password) == TRUE

\* `user.password !== password` (negated)
PasswordMatches(user, password) == user.password = password

\* POST /api/auth/login
Login(r, s, username, password) ==
  LET q == [Arrive("POST /api/auth/login", s) EXCEPT
              !.username = username, !.password = password]
      found == getUserByUsername(username)
      user == CHOOSE u \in found : TRUE
  IN  /\ Free(r)
      /\ IF username = "" \/ password = ""
           THEN /\ Reply(r, q, 400, Message("Username and password are required"))
                /\ UNCHANGED sessions
         ELSE IF found = {} \/ ~PasswordMatches(user, password)
           THEN /\ Reply(r, q, 401, Message("Invalid username or password"))
                /\ UNCHANGED sessions
         ELSE /\ sessions' = [sessions EXCEPT
                                ![s] = [userId |-> user.id, role |-> user.role]]
              /\ Reply(r, q, 200, WithoutPassword(user))
      /\ UNCHANGED <<db, entry>>

\* Mutation: a logout that keeps the session.
SessionKept(s) == sessions

\* req.session.destroy(): the store forgets the session.
SessionDestroyed(s) == [sessions EXCEPT ![s] = NoSession]

\* POST /api/auth/logout
Logout(r, s) ==
  /\ Free(r)
  /\ sessions' = SessionDestroyed(s)
  /\ Reply(r, Arrive("POST /api/auth/logout", s), 200, Message("Logout successful"))
  /\ UNCHANGED <<db, entry>>

\* GET /api/auth/me
Me(r, s) ==
  LET q == Arrive("GET /api/auth/me", s)
      found == getUser(sessions[s].userId)
  IN  /\ Free(r)
      /\ IF sessions[s].userId = NoId
           THEN /\ Reply(r, q, 401, Message("Not authenticated"))
                /\ UNCHANGED sessions
         ELSE IF found = {}
           THEN /\ sessions' = SessionDestroyed(s)
                /\ Reply(r, q, 401, Message("User not found"))
         ELSE /\ Reply(r, q, 200, WithoutPassword(CHOOSE u \in found : TRUE))
              /\ UNCHANGED sessions
      /\ UNCHANGED <<db, entry>>

\* GET /api/users
GetUsers(r, s) ==
  /\ Free(r)
  /\ Reply(r, Arrive("GET /api/users", s), 200,
           Items({WithoutPassword(u) : u \in Range(users)}))
  /\ UNCHANGED <<db, sessions, entry>>

\* insertUserSchema: username and password are required, role is of the enum.
ValidUser(body) ==
  /\ body.username # NULL
  /\ body.password # NULL
  /\ body.role \in Roles \cup {NULL}

\* POST /api/users
PostUsers(r, s, body) ==
  LET q == [Arrive("POST /api/users", s) EXCEPT
              !.username = body.username, !.password = body.password,
              !.value = body.role]
      pass == Guard(q.route, s) = Pass
  IN  /\ Free(r)
      /\ IF pass /\ ValidUser(body) /\ getUserByUsername(body.username) = {}
           THEN /\ userSeq <= MaxUsers
                /\ users' = createUser(body)
                /\ userSeq' = userSeq + 1
                /\ Reply(r, q, 201, WithoutPassword(users'[userSeq]))
           ELSE /\ Reply(r, q, 400,
                         IF ~ValidUser(body) THEN Message("Validation error")
                                             ELSE Message("Username already exists"))
                /\ UNCHANGED <<users, userSeq>>
      /\ UNCHANGED <<sessions, requirements, stages, candidates, stageHistory,
                     interviews, feedback, comments, requirementRecruiters,
                     rrSeq, entry>>

\* PATCH /api/users/:id: the body is not validated.
PatchUsers(r, s, id, body) ==
  LET q == [Arrive("PATCH /api/users/:id", s) EXCEPT
              !.id = id, !.username = body.username, !.value = body.role]
      pass == Guard(q.route, s) = Pass
      found == getUser(id)
      user == CHOOSE u \in found : TRUE
      taken == /\ body.username \notin {NULL, "", user.username}
               /\ getUserByUsername(body.username) # {}
  IN  /\ Free(r)
      /\ IF pass /\ id # NaN /\ found # {} /\ ~taken
           THEN /\ users' = updateUser(id, body)
                /\ Reply(r, q, 200, WithoutPassword(users'[id]))
           ELSE /\ IF id = NaN THEN Reply(r, q, 400, Message("Invalid ID"))
                   ELSE IF found = {} THEN Reply(r, q, 404, Message("User not found"))
                   ELSE Reply(r, q, 400, Message("Username already exists"))
                /\ UNCHANGED users
      /\ UNCHANGED <<userSeq, sessions, requirements, stages, candidates,
                     stageHistory, interviews, feedback, comments,
                     requirementRecruiters, rrSeq, entry>>

\* requirement_recruiters.recruiter_id REFERENCES users(id)
Referenced(id) == \E a \in requirementRecruiters : a.recruiterId = id

\* Mutation: a deletion without the check for the caller's own account.
DeleteUsersAlsoSelf(r, s, id) ==
  LET q == [Arrive("DELETE /api/users/:id", s) EXCEPT !.id = id]
      pass == Guard(q.route, s) = Pass
  IN  /\ Free(r)
      /\ IF pass /\ id # NaN /\ getUser(id) # {} /\ ~Referenced(id)
           THEN /\ users' = deleteUser(id)
                /\ Reply(r, q, 200, Message("User deleted successfully"))
           ELSE /\ IF id = NaN THEN Reply(r, q, 400, Message("Invalid ID"))
                   ELSE IF getUser(id) = {}
                     THEN Reply(r, q, 404, Message("User not found"))
                   ELSE Reply(r, q, 500, Message("Internal server error"))
                /\ UNCHANGED users
      /\ UNCHANGED <<userSeq, sessions, requirements, stages, candidates,
                     stageHistory, interviews, feedback, comments,
                     requirementRecruiters, rrSeq, entry>>

\* DELETE /api/users/:id
DeleteUsers(r, s, id) ==
  LET q == [Arrive("DELETE /api/users/:id", s) EXCEPT !.id = id]
      pass == Guard(q.route, s) = Pass
  IN  /\ Free(r)
      /\ IF pass /\ id # NaN /\ id # sessions[s].userId /\ getUser(id) # {}
              /\ ~Referenced(id)
           THEN /\ users' = deleteUser(id)
                /\ Reply(r, q, 200, Message("User deleted successfully"))
           ELSE /\ IF id = NaN THEN Reply(r, q, 400, Message("Invalid ID"))
                   ELSE IF id = sessions[s].userId
                     THEN Reply(r, q, 400, Message("Cannot delete your own account"))
                   ELSE IF getUser(id) = {}
                     THEN Reply(r, q, 404, Message("User not found"))
                   ELSE Reply(r, q, 500, Message("Internal server error"))
                /\ UNCHANGED users
      /\ UNCHANGED <<userSeq, sessions, requirements, stages, candidates,
                     stageHistory, interviews, feedback, comments,
                     requirementRecruiters, rrSeq, entry>>

\* GET /api/requirements
GetRequirements(r, s) ==
  /\ Free(r)
  /\ Reply(r, Arrive("GET /api/requirements", s), 200, Items(requirements))
  /\ UNCHANGED <<db, sessions, entry>>

\* GET /api/requirements/:id
GetRequirement(r, s, id) ==
  LET q == [Arrive("GET /api/requirements/:id", s) EXCEPT !.id = id]
      found == getRequirement(id)
  IN  /\ Free(r)
      /\ IF id = NaN THEN Reply(r, q, 400, Message("Invalid ID"))
         ELSE IF found = {} THEN Reply(r, q, 404, Message("Requirement not found"))
         ELSE Reply(r, q, 200, CHOOSE x \in found : TRUE)
      /\ UNCHANGED <<db, sessions, entry>>

\* POST /api/requirements: the schema requires createdBy in the body, and the
\* handler then replaces it with the session's user.
PostRequirements(r, s, body) ==
  LET q == [Arrive("POST /api/requirements", s) EXCEPT !.author = body.createdBy]
      pass == Guard(q.route, s) = Pass
  IN  /\ Free(r)
      /\ IF pass /\ body.createdBy # NaN
           THEN /\ requirements' =
                     createRequirement([body EXCEPT !.createdBy = sessions[s].userId])
                /\ Reply(r, q, 201, requirements'[Len(requirements')])
           ELSE /\ Reply(r, q, 400, Message("Validation error"))
                /\ UNCHANGED requirements
      /\ UNCHANGED <<users, userSeq, sessions, stages, candidates, stageHistory,
                     interviews, feedback, comments, requirementRecruiters,
                     rrSeq, entry>>

\* Mutation: a list of statuses with one value too many.
RequirementStatusesOpen == {"draft", "pending", "approved", "closed", "open"}

RequirementStatuses == {"draft", "pending", "approved", "closed"}

\* PATCH /api/requirements/:id/status
PatchRequirementStatus(r, s, id, status) ==
  LET q == [Arrive("PATCH /api/requirements/:id/status", s) EXCEPT
              !.id = id, !.value = status]
      pass == Guard(q.route, s) = Pass
  IN  /\ Free(r)
      /\ IF pass /\ id # NaN /\ status \in RequirementStatuses
              /\ getRequirement(id) # {}
           THEN /\ requirements' = updateRequirementStatus(id, status)
                /\ Reply(r, q, 200, requirements'[id])
           ELSE /\ IF id = NaN THEN Reply(r, q, 400, Message("Invalid ID"))
                   ELSE IF status \notin RequirementStatuses
                     THEN Reply(r, q, 400, Message("Invalid status"))
                   ELSE Reply(r, q, 404, Message("Requirement not found"))
                /\ UNCHANGED requirements
      /\ UNCHANGED <<users, userSeq, sessions, stages, candidates, stageHistory,
                     interviews, feedback, comments, requirementRecruiters,
                     rrSeq>>

\* POST /api/requirements/:id/recruiters.  req.body.recruiterId is used as
\* it arrives: the JSON number recruiterId, or (text) the JSON string of its
\* digits.  `r.id === recruiterId` is strict, so a string equals no id; the
\* insert stores either form as the integer.  The insert fails on a foreign
\* key when the requirement or the user does not exist.
PostRecruiters(r, s, requirementId, recruiterId, text) ==
  LET q == [Arrive("POST /api/requirements/:id/recruiters", s) EXCEPT
              !.requirementId = requirementId, !.id = recruiterId,
              !.value = IF text THEN "string" ELSE "number"]
      pass == Guard(q.route, s) = Pass
      assigned == /\ ~text
                  /\ \E u \in getRequirementRecruiters(requirementId) :
                       u.id = recruiterId
      orphan == getRequirement(requirementId) = {} \/ getUser(recruiterId) = {}
  IN  /\ Free(r)
      /\ IF pass /\ requirementId # NaN /\ recruiterId # NoId /\ ~assigned /\ ~orphan
           THEN /\ requirementRecruiters' =
                     createRequirementRecruiter([requirementId |-> requirementId,
                                                 recruiterId |-> recruiterId])
                /\ rrSeq' = rrSeq + 1
                /\ Reply(r, q, 201, [id |-> rrSeq, requirementId |-> requirementId,
                                     recruiterId |-> recruiterId])
           ELSE /\ IF requirementId = NaN \/ recruiterId = NoId
                     THEN Reply(r, q, 400,
                                Message("Invalid requirement ID or recruiter ID"))
                   ELSE IF assigned
                     THEN Reply(r, q, 400,
                                Message("Recruiter is already assigned to this requirement"))
                   ELSE Reply(r, q, 500, Message("Internal server error"))
                /\ UNCHANGED <<requirementRecruiters, rrSeq>>
      /\ UNCHANGED <<users, userSeq, sessions, requirements, stages, candidates,
                     stageHistory, interviews, feedback, comments>>

\* DELETE /api/requirements/:id/recruiters/:recruiterId
DeleteRecruiters(r, s, requirementId, recruiterId) ==
  LET q == [Arrive("DELETE /api/requirements/:id/recruiters/:recruiterId", s)
              EXCEPT !.requirementId = requirementId, !.id = recruiterId]
      pass == Guard(q.route, s) = Pass
  IN  /\ Free(r)
      /\ IF pass /\ requirementId # NaN /\ recruiterId # NaN
           THEN /\ requirementRecruiters' =
                     deleteRequirementRecruiter(requirementId, recruiterId)
                /\ Reply(r, q, 200, Message("Recruiter unassigned successfully"))
           ELSE /\ Reply(r, q, 400, Message("Invalid requirement ID or recruiter ID"))
                /\ UNCHANGED requirementRecruiters
      /\ UNCHANGED <<users, userSeq, sessions, requirements, stages, candidates,
                     stageHistory, interviews, feedback, comments, rrSeq>>

\* GET /api/stages
GetStages(r, s) ==
  /\ Free(r)
  /\ Reply(r, Arrive("GET /api/stages", s), 200, Items(getStages))
  /\ UNCHANGED <<db, sessions, entry>>

\* POST /api/stages
PostStages(r, s, body) ==
  LET q == Arrive("POST /api/stages", s)
      pass == Guard(q.route, s) = Pass
  IN  /\ Free(r)
      /\ IF pass /\ body.order # NaN
           THEN /\ stages' = createStage(body)
                /\ Reply(r, q, 201, stages'[Len(stages')])
           ELSE /\ Reply(r, q, 400, Message("Validation error"))
                /\ UNCHANGED stages
      /\ UNCHANGED <<users, userSeq, sessions, requirements, candidates,
                     stageHistory, interviews, feedback, comments,
                     requirementRecruiters, rrSeq, entry>>

\* GET /api/candidates[?requirementId=][?stageId=]; NoId is an absent parameter
GetCandidates(r, s, requirementId, stageId) ==
  LET q == [Arrive("GET /api/candidates", s) EXCEPT
              !.requirementId = requirementId, !.stageId = stageId]
  IN  /\ Free(r)
      /\ IF requirementId # NoId
           THEN IF requirementId = NaN
                  THEN Reply(r, q, 400, Message("Invalid requirement ID"))
                  ELSE Reply(r, q, 200,
                             Items(SelectSeq(candidates,
                                   LAMBDA c : c.requirementId = requirementId)))
         ELSE IF stageId # NoId
           THEN IF stageId = NaN
                  THEN Reply(r, q, 400, Message("Invalid stage ID"))
                  ELSE Reply(r, q, 200,
                             Items(SelectSeq(candidates,
                                   LAMBDA c : c.currentStageId = stageId)))
         ELSE Reply(r, q, 200, Items(candidates))
      /\ UNCHANGED <<db, sessions, entry>>

\* GET /api/candidates/:id
GetCandidate(r, s, id) ==
  LET q == [Arrive("GET /api/candidates/:id", s) EXCEPT !.id = id]
      found == getCandidate(id)
  IN  /\ Free(r)
      /\ IF id = NaN THEN Reply(r, q, 400, Message("Invalid ID"))
         ELSE IF found = {} THEN Reply(r, q, 404, Message("Candidate not found"))
         ELSE Reply(r, q, 200, CHOOSE c \in found : TRUE)
      /\ UNCHANGED <<db, sessions, entry>>

\* GET /api/candidates/:id/history
GetHistory(r, s, id) ==
  LET q == [Arrive("GET /api/candidates/:id/history", s) EXCEPT !.id = id]
  IN  /\ Free(r)
      /\ IF id = NaN THEN Reply(r, q, 400, Message("Invalid candidate ID"))
         ELSE \E history \in getStageHistory(id) :
                Reply(r, q, 200, Items(history))
      /\ UNCHANGED <<db, sessions, entry>>

\* GET /api/interviews[?candidateId=]
GetInterviews(r, s, candidateId) ==
  LET q == [Arrive("GET /api/interviews", s) EXCEPT !.id = candidateId]
  IN  /\ Free(r)
      /\ IF candidateId = NoId THEN Reply(r, q, 200, Items(interviews))
         ELSE IF candidateId = NaN
           THEN Reply(r, q, 400, Message("Invalid candidate ID"))
         ELSE Reply(r, q, 200,
                    Items(SelectSeq(interviews,
                                    LAMBDA i : i.candidateId = candidateId)))
      /\ UNCHANGED <<db, sessions, entry>>

InterviewStatuses == {"scheduled", "completed", "canceled", "no-show"}

\* POST /api/interviews
PostInterviews(r, s, body) ==
  LET q == [Arrive("POST /api/interviews", s) EXCEPT
              !.id = body.candidateId, !.requirementId = body.requirementId]
      pass == Guard(q.route, s) = Pass
      valid == /\ body.candidateId # NaN /\ body.requirementId # NaN
               /\ body.status \in InterviewStatuses \cup {NULL}
  IN  /\ Free(r)
      /\ IF pass /\ valid /\ getCandidate(body.candidateId) # {}
              /\ getRequirement(body.requirementId) # {}
           THEN /\ interviews' = createInterview(body)
                /\ Reply(r, q, 201, interviews'[Len(interviews')])
           ELSE /\ IF ~valid THEN Reply(r, q, 400, Message("Validation error"))
                   ELSE IF getCandidate(body.candidateId) = {}
                     THEN Reply(r, q, 400, Message("Invalid candidate ID"))
                   ELSE Reply(r, q, 400, Message("Invalid requirement ID"))
                /\ UNCHANGED interviews
      /\ UNCHANGED <<users, userSeq, sessions, requirements, stages, candidates,
                     stageHistory, feedback, comments, requirementRecruiters,
                     rrSeq, entry>>

\* PATCH /api/interviews/:id/status
PatchInterviewStatus(r, s, id, status) ==
  LET q == [Arrive("PATCH /api/interviews/:id/status", s) EXCEPT
              !.id = id, !.value = status]
      pass == Guard(q.route, s) = Pass
  IN  /\ Free(r)
      /\ IF pass /\ id # NaN /\ status \in InterviewStatuses /\ getInterview(id) # {}
           THEN /\ interviews' = updateInterviewStatus(id, status)
                /\ Reply(r, q, 200, interviews'[id])
           ELSE /\ IF id = NaN THEN Reply(r, q, 400, Message("Invalid ID"))
                   ELSE IF status \notin InterviewStatuses
                     THEN Reply(r, q, 400, Message("Invalid status"))
                   ELSE Reply(r, q, 404, Message("Interview not found"))
                /\ UNCHANGED interviews
      /\ UNCHANGED <<users, userSeq, sessions, requirements, stages, candidates,
                     stageHistory, feedback, comments, requirementRecruiters,
                     rrSeq>>

\* GET /api/interviews/:id/feedback
GetFeedback(r, s, id) ==
  LET q == [Arrive("GET /api/interviews/:id/feedback", s) EXCEPT !.id = id]
  IN  /\ Free(r)
      /\ IF id = NaN THEN Reply(r, q, 400, Message("Invalid interview ID"))
         ELSE Reply(r, q, 200,
                    Items(SelectSeq(feedback, LAMBDA f : f.interviewId = id)))
      /\ UNCHANGED <<db, sessions, entry>>

\* Mutation: the feedback is stored with the providedBy of the body.
PostFeedbackByBody(r, s, body) ==
  LET q == [Arrive("POST /api/feedback", s) EXCEPT !.id = body.interviewId,
                                                  !.author = body.providedBy]
      pass == Guard(q.route, s) = Pass
      valid == body.interviewId # NaN /\ body.providedBy # NaN
  IN  /\ Free(r)
      /\ IF pass /\ valid /\ getInterview(body.interviewId) # {}
           THEN /\ feedback' = createFeedback(body)
                /\ Reply(r, q, 201, feedback'[Len(feedback')])
           ELSE /\ IF ~valid THEN Reply(r, q, 400, Message("Validation error"))
                   ELSE Reply(r, q, 400, Message("Invalid interview ID"))
                /\ UNCHANGED feedback
      /\ UNCHANGED <<users, userSeq, sessions, requirements, stages, candidates,
                     stageHistory, interviews, comments, requirementRecruiters,
                     rrSeq, entry>>

\* POST /api/feedback: providedBy is required in the body, then replaced.
PostFeedback(r, s, body) ==
  LET q == [Arrive("POST /api/feedback", s) EXCEPT !.id = body.interviewId,
                                                  !.author = body.providedBy]
      pass == Guard(q.route, s) = Pass
      valid == body.interviewId # NaN /\ body.providedBy # NaN
  IN  /\ Free(r)
      /\ IF pass /\ valid /\ getInterview(body.interviewId) # {}
           THEN /\ feedback' =
                     createFeedback([body EXCEPT !.providedBy = sessions[s].userId])
                /\ Reply(r, q, 201, feedback'[Len(feedback')])
           ELSE /\ IF ~valid THEN Reply(r, q, 400, Message("Validation error"))
                   ELSE Reply(r, q, 400, Message("Invalid interview ID"))
                /\ UNCHANGED feedback
      /\ UNCHANGED <<users, userSeq, sessions, requirements, stages, candidates,
                     stageHistory, interviews, comments, requirementRecruiters,
                     rrSeq, entry>>

\* GET /api/candidates/:id/comments
GetComments(r, s, id) ==
  LET q == [Arrive("GET /api/candidates/:id/comments", s) EXCEPT !.id = id]
  IN  /\ Free(r)
      /\ IF id = NaN THEN Reply(r, q, 400, Message("Invalid candidate ID"))
         ELSE Reply(r, q, 200,
                    Items(SelectSeq(comments, LAMBDA c : c.candidateId = id)))
      /\ UNCHANGED <<db, sessions, entry>>

\* POST /api/comments: userId is required in the body, then replaced.
PostComments(r, s, body) ==
  LET q == [Arrive("POST /api/comments", s) EXCEPT !.id = body.candidateId,
                                                  !.author = body.userId]
      pass == Guard(q.route, s) = Pass
      valid == body.candidateId # NaN /\ body.userId # NaN
  IN  /\ Free(r)
      /\ IF pass /\ valid /\ getCandidate(body.candidateId) # {}
           THEN /\ comments' =
                     createComment([body EXCEPT !.userId = sessions[s].userId])
                /\ Reply(r, q, 201, comments'[Len(comments')])
           ELSE /\ IF ~valid THEN Reply(r, q, 400, Message("Validation error"))
                   ELSE Reply(r, q, 400, Message("Invalid candidate ID"))
                /\ UNCHANGED comments
      /\ UNCHANGED <<users, userSeq, sessions, requirements, stages, candidates,
                     stageHistory, interviews, feedback, requirementRecruiters,
                     rrSeq, entry>>

\* The number of rows of a table that satisfy a condition.
Count(table, Test(_)) == Len(SelectSeq(table, Test))

\* GET /api/dashboard/stats: the counts that do not depend on the clock.
GetDashboardStats(r, s) ==
  /\ Free(r)
  /\ Reply(r, Arrive("GET /api/dashboard/stats", s), 200,
       [candidates |->
          [total |-> Len(candidates),
           active |-> Count(candidates, LAMBDA c : c.status = "active"),
           hired |-> Count(candidates, LAMBDA c : c.status = "hired"),
           rejected |-> Count(candidates, LAMBDA c : c.status = "rejected"),
           byStage |-> [i \in DOMAIN getStages |->
                          [stageId |-> getStages[i].id,
                           count |-> Count(candidates,
                                       LAMBDA c : c.currentStageId = getStages[i].id)]]],
        requirements |->
          [total |-> Len(requirements),
           open |-> Count(requirements, LAMBDA x : x.status = "approved"),
           urgent |-> Count(requirements,
                        LAMBDA x : x.status = "approved" /\ x.priority = "urgent")],
        interviews |-> [total |-> Len(interviews)]])
  /\ UNCHANGED <<db, sessions, entry>>

-----------------------------------------------------------------------------
(* GET /api/dashboard/stats, await by await.  GetDashboardStats above is   *)
(* the handler run without another request in between, with the counts     *)
(* that do not depend on the clock.                                        *)

\* Clock readings and scheduled times, two to a day.
Times == 0..3

Day(t) == t \div 2

\* isAuthenticated, then getCandidates is issued.
DashboardStats(r, s) ==
  /\ Free(r)
  /\ LET q == Arrive("GET /api/dashboard/stats", s)
     IN reqs' = [reqs EXCEPT ![r] =
          IF Guard(q.route, s) # Pass
            THEN Respond(q, Guard(q.route, s), Denial(Guard(q.route, s)))
            ELSE [q EXCEPT !.pc = "getCandidates"]]
  /\ UNCHANGED <<db, sessions, entry>>

\* const candidates = await storage.getCandidates()
DashboardGetCandidates(r) ==
  /\ reqs[r].pc = "getCandidates"
  /\ reqs' = [reqs EXCEPT ![r].pc = "getRequirements",
                          ![r].seen.candidates = candidates]
  /\ UNCHANGED <<db, sessions, entry>>

\* const requirements = await storage.getRequirements()
DashboardGetRequirements(r) ==
  /\ reqs[r].pc = "getRequirements"
  /\ reqs' = [reqs EXCEPT ![r].pc = "getStages",
                          ![r].seen.requirements = requirements]
  /\ UNCHANGED <<db, sessions, entry>>

\* const stages = await storage.getStages()
DashboardGetStages(r) ==
  /\ reqs[r].pc = "getStages"
  /\ reqs' = [reqs EXCEPT ![r].pc = "getInterviews",
                          ![r].seen.stages = getStages]
  /\ UNCHANGED <<db, sessions, entry>>

\* const interviews = await storage.getInterviews()
DashboardGetInterviews(r) ==
  /\ reqs[r].pc = "getInterviews"
  /\ reqs' = [reqs EXCEPT ![r].pc = "getUpcomingInterviews",
                          ![r].seen.interviews = interviews]
  /\ UNCHANGED <<db, sessions, entry>>

\* The rows with status "scheduled" whose scheduledTime is after now.
getUpcomingInterviews(now) ==
  SelectSeq(interviews,
            LAMBDA i : i.status = "scheduled" /\ i.scheduledTime > now)

\* The counts of the response, from what the handler has read.
Stats(seen, upcoming, today) ==
  [candidates |->
     [total |-> Len(seen.candidates),
      active |-> Len(SelectSeq(seen.candidates, LAMBDA c : c.status = "active")),
      hired |-> Len(SelectSeq(seen.candidates, LAMBDA c : c.status = "hired")),
      rejected |->
        Len(SelectSeq(seen.candidates, LAMBDA c : c.status = "rejected")),
      byStage |->
        [i \in DOMAIN seen.stages |->
           [stageId |-> seen.stages[i].id,
            count |-> Len(SelectSeq(seen.candidates,
                        LAMBDA c : c.currentStageId = seen.stages[i].id))]]],
   requirements |->
     [total |-> Len(seen.requirements),
      open |-> Len(SelectSeq(seen.requirements, LAMBDA x : x.status = "approved")),
      urgent |-> Len(SelectSeq(seen.requirements,
                   LAMBDA x : x.status = "approved" /\ x.priority = "urgent"))],
   interviews |->
     [total |-> Len(seen.interviews),
      upcoming |-> Len(upcoming),
      today |-> Len(SelectSeq(upcoming,
                  LAMBDA i : Day(i.scheduledTime) = Day(today)))]]

\* const upcomingInterviews = await storage.getUpcomingInterviews(), the
\* filter for today, and the response.  now and today are the readings of
\* `new Date()` in getUpcomingInterviews and in the filter.
DashboardGetUpcomingInterviews(r) ==
  /\ reqs[r].pc = "getUpcomingInterviews"
  /\ \E now \in Times, today \in Times :
       /\ now <= today
       /\ reqs' = [reqs EXCEPT ![r] =
            Finish(r, 200, Stats(reqs[r].seen, getUpcomingInterviews(now), today))]
  /\ UNCHANGED <<db, sessions, entry>>

DashboardSteps(r) ==
  \/ DashboardGetCandidates(r)
  \/ DashboardGetRequirements(r)
  \/ DashboardGetStages(r)
  \/ DashboardGetInterviews(r)
  \/ DashboardGetUpcomingInterviews(r)

-----------------------------------------------------------------------------
(* The state after construction and seeding *)

Init ==
  /\ users = SeedUsers
  /\ userSeq = 4
  /\ sessions = [s \in Sessions |-> NoSession]
  /\ requirements = <<>>
  /\ stages = SeedStages
  /\ candidates = <<>>
  /\ stageHistory = <<>>
  /\ interviews = <<>>
  /\ feedback = <<>>
  /\ comments = <<>>
  /\ requirementRecruiters = {}
  /\ rrSeq = 1
  /\ reqs = [r \in Slots |-> Idle]
  /\ entry = [slot |-> "", tables |-> Tables]

-----------------------------------------------------------------------------
(* The pipeline workflow: admin and recruiter are logged in and one        *)
(* requirement is open; candidate creations and stage moves interleave.    *)

InitStage ==
  /\ users = SeedUsers
  /\ userSeq = 4
  /\ sessions = [s \in Sessions |->
        IF s = "s1" THEN [userId |-> 1, role |-> "admin"]
                    ELSE [userId |-> 3, role |-> "recruiter"]]
  /\ requirements = <<[id |-> 1, status |-> "approved", priority |-> "medium",
                       createdBy |-> 1]>>
  /\ stages = SeedStages
  /\ candidates = <<>>
  /\ stageHistory = <<>>
  /\ interviews = <<>>
  /\ feedback = <<>>
  /\ comments = <<>>
  /\ requirementRecruiters = {}
  /\ rrSeq = 1
  /\ reqs = [r \in Slots |-> Idle]
  /\ entry = [slot |-> "", tables |-> Tables]

MoveSteps(r) ==
  \/ PatchCandidateStageGetStage(r)
  \/ updateCandidateStageSelect(r)
  \/ updateCandidateStageUpdate(r)
  \/ updateCandidateStageHistory(r)

CreateSteps(r) ==
  \/ PostCandidatesGetRequirement(r)
  \/ PostCandidatesGetStage(r)
  \/ PostCandidatesCreate(r)
  \/ PostCandidatesHistory(r)

StageSteps(r) == CreateSteps(r) \/ MoveSteps(r)

NextStage ==
  \/ \E r \in Slots, s \in Sessions :
       /\ PostCandidates(r, s, [requirementId |-> 1, currentStageId |-> 1])
       /\ UNCHANGED entry
  \/ \E r \in Slots, s \in Sessions, stageId \in {1, 2} :
       /\ PatchCandidateStage(r, s, 1, stageId, NULL)
       /\ UNCHANGED entry
  \/ \E r \in Slots : StageSteps(r)

SpecStage == InitStage /\ [][NextStage]_vars

-----------------------------------------------------------------------------
(* Requests one at a time: a request begins only when none is in flight.   *)

\* The history variable: the request in slot r begins now.
Enter(r) == entry' = [slot |-> r, tables |-> Tables]

NextSeq ==
  \/ \E requirementId \in {1, 9, NaN}, stageId \in {1, 9} :
       /\ Quiescent
       /\ PostCandidates("r1", "s1", [requirementId |-> requirementId,
                                      currentStageId |-> stageId])
       /\ Enter("r1")
  \/ \E id \in {1, 2, 9, NaN}, stageId \in {1, 2, 9, NoId},
        text \in {NULL, "", "good fit"} :
       /\ Quiescent
       /\ PatchCandidateStage("r1", "s1", id, stageId, text)
       /\ Enter("r1")
  \/ \E r \in Slots : CreateSteps(r) \/ MoveSteps(r)

SpecSeq == InitStage /\ [][NextSeq]_vars

-----------------------------------------------------------------------------
(* Two stage moves of one existing candidate, one per slot.                *)

InitRace ==
  /\ users = SeedUsers
  /\ userSeq = 4
  /\ sessions = [s \in Sessions |->
        IF s = "s1" THEN [userId |-> 1, role |-> "admin"]
                    ELSE [userId |-> 3, role |-> "recruiter"]]
  /\ requirements = <<[id |-> 1, status |-> "approved", priority |-> "medium",
                       createdBy |-> 1]>>
  /\ stages = SeedStages
  /\ candidates = <<[id |-> 1, currentStageId |-> 1, requirementId |-> 1,
                     status |-> "active"]>>
  /\ stageHistory = <<[id |-> 1, candidateId |-> 1, fromStageId |-> NoId,
                       toStageId |-> 1, movedBy |-> 3, movedAt |-> 1,
                       comments |-> "Initial application"]>>
  /\ interviews = <<>>
  /\ feedback = <<>>
  /\ comments = <<>>
  /\ requirementRecruiters = {}
  /\ rrSeq = 1
  /\ reqs = [r \in Slots |-> Idle]
  /\ entry = [slot |-> "", tables |-> Tables]

NextRace ==
  \/ \E r \in Slots, s \in Sessions, stageId \in {1, 2} :
       /\ reqs[r].pc = "idle"
       /\ PatchCandidateStage(r, s, 1, stageId, NULL)
       /\ UNCHANGED entry
  \/ \E r \in Slots : MoveSteps(r)

SpecRace == InitRace /\ [][NextRace]_vars

-----------------------------------------------------------------------------
(* The whole API, one request at a time, from the seeded database: the     *)
(* administrator signs in on s1, the manager and the recruiter on s2.      *)
(* Candidate requests are the ones the first step answers (no session, or  *)
(* a malformed id); the rest of that workflow is SpecStage and SpecSeq.    *)
(* Requirements are created by the administrator.                          *)

UserBodies ==
  {[username |-> "temp", password |-> "temp123", role |-> NULL],
   [username |-> "admin", password |-> "x", role |-> "manager"],
   [username |-> NULL, password |-> "temp123", role |-> NULL]}

UserUpdates ==
  {[username |-> NULL, password |-> NULL, role |-> ""],
   [username |-> "admin", password |-> NULL, role |-> NULL]}

RequirementBodies ==
  {[status |-> NULL, priority |-> "urgent", createdBy |-> 9],
   [status |-> NULL, priority |-> NULL, createdBy |-> NaN]}

Next ==
  \/ \E username \in {"admin", ""}, password \in {"admin123", "recruiter123"} :
       Login("r1", "s1", username, password)
  \/ \E username \in {"manager", "recruiter", "nobody"},
        password \in {"manager123", "recruiter123", ""} :
       Login("r1", "s2", username, password)
  \/ \E s \in Sessions : Logout("r1", s)
  \/ \E s \in Sessions : Me("r1", s)
  \/ \E s \in Sessions : GetUsers("r1", s)
  \/ \E s \in Sessions, body \in UserBodies : PostUsers("r1", s, body)
  \/ \E s \in Sessions, body \in UserUpdates : PatchUsers("r1", s, 3, body)
  \/ \E s \in Sessions, id \in {1, 3} : DeleteUsers("r1", s, id)
  \/ \E s \in Sessions : GetRequirements("r1", s)
  \/ \E s \in Sessions : GetRequirement("r1", s, 1)
  \/ \E s \in Sessions, body \in RequirementBodies :
       /\ sessions[s].role # "manager" \/ body.createdBy = NaN
       /\ Admits("POST /api/requirements", s) => RoomForRow
       /\ PostRequirements("r1", s, body)
  \/ \E s \in Sessions, status \in {"approved", "open"} :
       PatchRequirementStatus("r1", s, 1, status) /\ UNCHANGED entry
  \/ \E s \in Sessions :
       /\ Admits("POST /api/requirements/:id/recruiters", s) => rrSeq <= MaxRows
       /\ PostRecruiters("r1", s, 1, 3, FALSE)
       /\ UNCHANGED entry
  \/ \E s \in Sessions : DeleteRecruiters("r1", s, 1, 3) /\ UNCHANGED entry
  \/ \E s \in Sessions : GetStages("r1", s)
  \/ \E s \in Sessions :
       /\ Admits("POST /api/stages", s) => RoomForRow
       /\ PostStages("r1", s, [order |-> 3])
  \/ \E s \in Sessions : GetCandidates("r1", s, NoId, NoId)
  \/ \E s \in Sessions : GetCandidate("r1", s, 1)
  \/ \E s \in Sessions, requirementId \in {1, NaN} :
       /\ ~isAuthenticated(s) \/ requirementId = NaN
       /\ PostCandidates("r1", s, [requirementId |-> requirementId,
                                   currentStageId |-> 1])
       /\ UNCHANGED entry
  \/ \E s \in Sessions, id \in {1, NaN} :
       /\ ~isAuthenticated(s) \/ id = NaN
       /\ PatchCandidateStage("r1", s, id, 2, NULL)
       /\ UNCHANGED entry
  \/ \E s \in Sessions : GetHistory("r1", s, 1)
  \/ \E s \in Sessions : GetInterviews("r1", s, NoId)
  \/ \E s \in Sessions :
       /\ Admits("POST /api/interviews", s) => RoomForRow
       /\ PostInterviews("r1", s, [candidateId |-> 1, requirementId |-> 1,
                                   scheduledTime |-> 1, status |-> NULL])
  \/ \E s \in Sessions :
       PatchInterviewStatus("r1", s, 1, "completed") /\ UNCHANGED entry
  \/ \E s \in Sessions : GetFeedback("r1", s, 1)
  \/ \E s \in Sessions :
       /\ Admits("POST /api/feedback", s) => RoomForRow
       /\ PostFeedback("r1", s, [interviewId |-> 1, providedBy |-> 9])
  \/ \E s \in Sessions : GetComments("r1", s, 1)
  \/ \E s \in Sessions :
       /\ Admits("POST /api/comments", s) => RoomForRow
       /\ PostComments("r1", s, [candidateId |-> 1, userId |-> 9])
  \/ \E s \in Sessions : GetDashboardStats("r1", s)

Spec == Init /\ [][Next]_vars

-----------------------------------------------------------------------------
(* The data API on a populated database, one request at a time: the        *)
(* administrator (s1) works on a requirement with one candidate, placed by *)
(* the recruiter, and one interview.                                       *)

InitData ==
  /\ users = SeedUsers
  /\ userSeq = 4
  /\ sessions = [s \in Sessions |->
        IF s = "s1" THEN [userId |-> 1, role |-> "admin"]
                    ELSE [userId |-> 3, role |-> "recruiter"]]
  /\ requirements = <<[id |-> 1, status |-> "approved", priority |-> "medium",
                       createdBy |-> 1]>>
  /\ stages = SeedStages
  /\ candidates = <<[id |-> 1, currentStageId |-> 1, requirementId |-> 1,
                     status |-> "active"]>>
  /\ stageHistory = <<[id |-> 1, candidateId |-> 1, fromStageId |-> NoId,
                       toStageId |-> 1, movedBy |-> 3, movedAt |-> 1,
                       comments |-> "Initial application"]>>
  /\ interviews = <<[id |-> 1, candidateId |-> 1, requirementId |-> 1,
                     scheduledTime |-> 1, status |-> "scheduled"]>>
  /\ feedback = <<>>
  /\ comments = <<>>
  /\ requirementRecruiters = {}
  /\ rrSeq = 1
  /\ reqs = [r \in Slots |-> Idle]
  /\ entry = [slot |-> "", tables |-> Tables]

\* The rows ever inserted into the tables t.
Total(t) ==
  Len(t.requirements) + Len(t.stages) + Len(t.candidates) + Len(t.stageHistory)
    + Len(t.interviews) + Len(t.feedback) + Len(t.comments) + t.rrSeq + t.userSeq

\* Room for n more rows on top of the database of InitData (kept in entry).
RoomForData(n) == Total(Tables) + n <= Total(entry.tables) + MaxRows + 1

NextData ==
  \/ GetUsers("r1", "s1")
  \/ RoomForData(1) /\ PostUsers("r1", "s1", [username |-> "temp",
                                             password |-> "temp123", role |-> NULL])
  \/ PatchUsers("r1", "s1", 2, [username |-> "lead", password |-> NULL,
                                role |-> NULL])
  \/ \E id \in {1, 3} : DeleteUsers("r1", "s1", id)
  \/ GetRequirements("r1", "s1")
  \/ GetRequirement("r1", "s1", 1)
  \/ RoomForData(1) /\ PostRequirements("r1", "s1", [status |-> NULL,
                                          priority |-> "urgent", createdBy |-> 9])
  \/ \E status \in {"closed", "open"} :
       PatchRequirementStatus("r1", "s1", 1, status) /\ UNCHANGED entry
  \/ RoomForData(1) /\ PostRecruiters("r1", "s1", 1, 2, FALSE) /\ UNCHANGED entry
  \/ DeleteRecruiters("r1", "s1", 1, 2) /\ UNCHANGED entry
  \/ GetStages("r1", "s1")
  \/ RoomForData(1) /\ PostStages("r1", "s1", [order |-> 3])
  \/ GetCandidates("r1", "s1", 1, NoId)
  \/ GetCandidate("r1", "s1", 1)
  \/ /\ Quiescent /\ RoomForData(2)
     /\ PostCandidates("r1", "s1", [requirementId |-> 1, currentStageId |-> 2])
     /\ UNCHANGED entry
  \/ \E stageId \in {1, 2} :
       /\ Quiescent /\ RoomForData(1)
       /\ PatchCandidateStage("r1", "s1", 1, stageId, "good fit")
       /\ UNCHANGED entry
  \/ StageSteps("r1")
  \/ GetHistory("r1", "s1", 1)
  \/ GetInterviews("r1", "s1", 1)
  \/ RoomForData(1) /\ PostInterviews("r1", "s1",
                         [candidateId |-> 1, requirementId |-> 1,
                          scheduledTime |-> 2, status |-> NULL])
  \/ \E status \in {"completed", "done"} :
       PatchInterviewStatus("r1", "s1", 1, status) /\ UNCHANGED entry
  \/ GetFeedback("r1", "s1", 1)
  \/ RoomForData(1) /\ PostFeedback("r1", "s1", [interviewId |-> 1, providedBy |-> 9])
  \/ GetComments("r1", "s1", 1)
  \/ RoomForData(1) /\ PostComments("r1", "s1", [candidateId |-> 1, userId |-> 9])
  \/ GetDashboardStats("r1", "s1")

SpecData == InitData /\ [][NextData]_vars

-----------------------------------------------------------------------------
(* The status routes, one request at a time: the administrator (s1) and a  *)
(* manager or a recruiter (s2) set the status of two requirements and of   *)
(* one interview.                                                          *)

InitStatus ==
  /\ users = SeedUsers
  /\ userSeq = 4
  /\ sessions = [s \in Sessions |->
        IF s = "s1" THEN [userId |-> 1, role |-> "admin"]
                    ELSE [userId |-> 2, role |-> "manager"]]
  /\ requirements = <<[id |-> 1, status |-> "draft", priority |-> "medium",
                       createdBy |-> 1],
                      [id |-> 2, status |-> "closed", priority |-> "medium",
                       createdBy |-> 2]>>
  /\ stages = SeedStages
  /\ candidates = <<[id |-> 1, currentStageId |-> 1, requirementId |-> 1,
                     status |-> "active"]>>
  /\ stageHistory = <<[id |-> 1, candidateId |-> 1, fromStageId |-> NoId,
                       toStageId |-> 1, movedBy |-> 3, movedAt |-> 1,
                       comments |-> "Initial application"]>>
  /\ interviews = <<[id |-> 1, candidateId |-> 1, requirementId |-> 1,
                     scheduledTime |-> 1, status |-> "scheduled"]>>
  /\ feedback = <<>>
  /\ comments = <<>>
  /\ requirementRecruiters = {}
  /\ rrSeq = 1
  /\ reqs = [r \in Slots |-> Idle]
  /\ entry = [slot |-> "", tables |-> Tables]

\* req.body.status: a string of neither enum, the empty string, no value.
NoStatus == {"open", "", NULL}

NextStatus ==
  \/ Logout("r1", "s2")
  \/ \E username \in {"manager", "recruiter"} :
       Login("r1", "s2", username, users[IF username = "manager" THEN 2 ELSE 3].password)
  \/ \E s \in Sessions, id \in {1, 2, 9},
        status \in RequirementStatuses \cup NoStatus \cup {"completed"} :
       PatchRequirementStatus("r1", s, id, status) /\ Enter("r1")
  \/ \E s \in Sessions, id \in {1, NaN},
        status \in InterviewStatuses \cup NoStatus \cup {"draft"} :
       PatchInterviewStatus("r1", s, id, status) /\ Enter("r1")

SpecStatus == InitStatus /\ [][NextStatus]_vars

-----------------------------------------------------------------------------
(* Assignments of recruiters, one request at a time: the administrator     *)
(* (s1) and the manager (s2) assign users 2 and 3 to two requirements and  *)
(* unassign them.                                                          *)

InitAssign ==
  /\ users = SeedUsers
  /\ userSeq = 4
  /\ sessions = [s \in Sessions |->
        IF s = "s1" THEN [userId |-> 1, role |-> "admin"]
                    ELSE [userId |-> 2, role |-> "manager"]]
  /\ requirements = <<[id |-> 1, status |-> "approved", priority |-> "medium",
                       createdBy |-> 1],
                      [id |-> 2, status |-> "approved", priority |-> "medium",
                       createdBy |-> 2]>>
  /\ stages = SeedStages
  /\ candidates = <<>>
  /\ stageHistory = <<>>
  /\ interviews = <<>>
  /\ feedback = <<>>
  /\ comments = <<>>
  /\ requirementRecruiters = {}
  /\ rrSeq = 1
  /\ reqs = [r \in Slots |-> Idle]
  /\ entry = [slot |-> "", tables |-> Tables]

NextAssign ==
  \/ \E s \in Sessions, requirementId \in {1, 2}, recruiterId \in {2, 3},
        text \in BOOLEAN :
       /\ rrSeq <= MaxAssignments
       /\ PostRecruiters("r1", s, requirementId, recruiterId, text)
       /\ Enter("r1")
  \/ \E s \in Sessions, requirementId \in {1, 2}, recruiterId \in {2, 3} :
       /\ DeleteRecruiters("r1", s, requirementId, recruiterId)
       /\ Enter("r1")

SpecAssign == InitAssign /\ [][NextAssign]_vars

-----------------------------------------------------------------------------
(* POST /api/requirements/:id/recruiters step by step: the handler awaits  *)
(* the list of assigned recruiters and then the insert, and other requests *)
(* run between the two.  recruiterId is a JSON number here.                *)

AssignRecruiter(r, s, requirementId, recruiterId) ==
  /\ Free(r)
  /\ LET q == [Arrive("POST /api/requirements/:id/recruiters", s) EXCEPT
                !.requirementId = requirementId, !.id = recruiterId,
                !.value = "number"]
     IN reqs' = [reqs EXCEPT ![r] =
          IF Guard(q.route, s) # Pass
            THEN Respond(q, Guard(q.route, s), Denial(Guard(q.route, s)))
          ELSE IF requirementId = NaN \/ recruiterId = NoId
            THEN Respond(q, 400, Message("Invalid requirement ID or recruiter ID"))
            ELSE [q EXCEPT !.pc = "getRequirementRecruiters"]]
  /\ UNCHANGED <<db, sessions, entry>>

\* const assignedRecruiters = await storage.getRequirementRecruiters(...);
\* if (assignedRecruiters.some(r => r.id === recruiterId)) return 400
AssignGetRecruiters(r) ==
  /\ reqs[r].pc = "getRequirementRecruiters"
  /\ LET q == reqs[r]
         assigned == \E u \in getRequirementRecruiters(q.requirementId) : u.id = q.id
     IN reqs' = [reqs EXCEPT ![r] =
          IF assigned
            THEN Respond(q, 400, Message("Recruiter is already assigned to this requirement"))
            ELSE [q EXCEPT !.pc = "createRequirementRecruiter"]]
  /\ UNCHANGED <<db, sessions, entry>>

\* const assignment = await storage.createRequirementRecruiter({...});
\* res.status(201).json(assignment).  The insert fails on a foreign key
\* when the requirement or the user does not exist.
AssignCreate(r) ==
  /\ reqs[r].pc = "createRequirementRecruiter"
  /\ LET q == reqs[r]
         orphan == getRequirement(q.requirementId) = {} \/ getUser(q.id) = {}
     IN  IF orphan
           THEN /\ reqs' = [reqs EXCEPT ![r] =
                     Respond(q, 500, Message("Internal server error"))]
                /\ UNCHANGED <<requirementRecruiters, rrSeq>>
           ELSE /\ requirementRecruiters' =
                     createRequirementRecruiter([requirementId |-> q.requirementId,
                                                 recruiterId |-> q.id])
                /\ rrSeq' = rrSeq + 1
                /\ reqs' = [reqs EXCEPT ![r] =
                     Respond(q, 201, [id |-> rrSeq, requirementId |-> q.requirementId,
                                      recruiterId |-> q.id])]
  /\ UNCHANGED <<users, userSeq, sessions, requirements, stages, candidates,
                 stageHistory, interviews, feedback, comments, entry>>

AssignSteps(r) ==
  \/ AssignGetRecruiters(r)
  \/ AssignCreate(r)

\* Assignments and unassignments on two connections: a request may arrive
\* while another one is between its steps.
NextOverlap ==
  \/ \E r \in Slots, s \in Sessions, requirementId \in {1, 2},
        recruiterId \in {2, 3} :
       /\ rrSeq + Cardinality(InFlight) <= MaxAssignments
       /\ AssignRecruiter(r, s, requirementId, recruiterId)
  \/ \E r \in Slots : AssignSteps(r)
  \/ \E r \in Slots, requirementId \in {1, 2}, recruiterId \in {2, 3} :
       /\ DeleteRecruiters(r, "s1", requirementId, recruiterId)
       /\ UNCHANGED entry

SpecOverlap == InitAssign /\ [][NextOverlap]_vars

-----------------------------------------------------------------------------
(* The routes that store an author, one request at a time, by the          *)
(* administrator (s1, user 1) and the recruiter (s2, user 3).  The body    *)
(* names an author that is another user (9), the caller's own id, or is    *)
(* missing or not an integer (NaN).                                        *)

Authors == {3, 9, NaN}

\* The rows of the tables with an author.
Authored ==
  Len(requirements) + Len(feedback) + Len(comments) + Len(stageHistory)

\* At most MaxRows + 1 rows are added to the two rows of InitData.
RoomForAuthor == Authored <= MaxRows + 2

NextAuthor ==
  \/ \E s \in Sessions, author \in Authors :
       /\ RoomForAuthor
       /\ PostRequirements("r1", s, [status |-> NULL, priority |-> NULL,
                                     createdBy |-> author])
  \/ \E s \in Sessions, author \in Authors, interviewId \in {1, 2} :
       /\ RoomForAuthor
       /\ PostFeedback("r1", s, [interviewId |-> interviewId,
                                 providedBy |-> author])
  \/ \E s \in Sessions, author \in Authors, candidateId \in {1, 3} :
       /\ RoomForAuthor
       /\ PostComments("r1", s, [candidateId |-> candidateId, userId |-> author])
  \/ \E s \in Sessions :
       /\ Quiescent /\ RoomForAuthor /\ Len(candidates) < MaxCandidates
       /\ PostCandidates("r1", s, [requirementId |-> 1, currentStageId |-> 1])
       /\ UNCHANGED entry
  \/ \E s \in Sessions :
       /\ Quiescent /\ RoomForAuthor
       /\ PatchCandidateStage("r1", s, 1, 2, NULL)
       /\ UNCHANGED entry
  \/ StageSteps("r1")

SpecAuthor == InitData /\ [][NextAuthor]_vars

-----------------------------------------------------------------------------
(* MemStorage next to DatabaseStorage.  The maps and counters of the       *)
(* MemStorage instance are a record t of the shape of Tables, kept in      *)
(* entry.tables; every IStorage operation is applied to both stores with   *)
(* the same arguments and the same clock reading.  reqs["r1"] holds what   *)
(* DatabaseStorage returned or threw, reqs["r2"] what MemStorage did.      *)

\* MemStorage.createRequirementRecruiter
MemCreateRequirementRecruiter(t, data) ==
  [t EXCEPT !.requirementRecruiters =
              @ \cup {[id |-> t.rrSeq, requirementId |-> data.requirementId,
                       recruiterId |-> data.recruiterId]},
            !.rrSeq = @ + 1]

\* MemStorage.deleteRequirementRecruiter: find() yields the first match in
\* insertion order, the one with the least id, and only that one is deleted.
MemDeleteRequirementRecruiter(t, requirementId, recruiterId) ==
  LET matches == {a \in t.requirementRecruiters :
                    a.requirementId = requirementId /\ a.recruiterId = recruiterId}
  IN  IF matches = {} THEN t
      ELSE [t EXCEPT !.requirementRecruiters =
              @ \ {CHOOSE a \in matches : \A b \in matches : a.id <= b.id}]

\* MemStorage.updateRequirementStatus
MemUpdateRequirementStatus(t, id, status) ==
  [t EXCEPT !.requirements =
     [i \in DOMAIN @ |->
        IF @[i].id = id THEN [@[i] EXCEPT !.status = status] ELSE @[i]]]

\* MemStorage.getRequirement
MemGetRequirement(t, id) == {q \in Range(t.requirements) : q.id = id}

\* MemStorage.getCandidate
MemGetCandidate(t, id) == {c \in Range(t.candidates) : c.id = id}

\* MemStorage.updateCandidateStage and createStageHistory: the comments are
\* stored as they are passed.
MemUpdateCandidateStage(t, id, stageId, userId, text, now) ==
  IF MemGetCandidate(t, id) = {} THEN t
  ELSE [t EXCEPT
          !.candidates =
             [i \in DOMAIN @ |->
                IF @[i].id = id THEN [@[i] EXCEPT !.currentStageId = stageId]
                                ELSE @[i]],
          !.stageHistory =
             Append(@, [id |-> Len(@) + 1, candidateId |-> id,
                        fromStageId |->
                          (CHOOSE c \in MemGetCandidate(t, id) : TRUE).currentStageId,
                        toStageId |-> stageId, movedBy |-> userId,
                        movedAt |-> now, comments |-> text])]

\* What an operation gave back: a value, or an error.
Returned(op, value) ==
  [Idle EXCEPT !.route = op, !.pc = "done", !.body = [returned |-> value]]

Thrown(op, text) ==
  [Idle EXCEPT !.route = op, !.pc = "thrown", !.body = Message(text)]

Both(database, memory) == reqs' = [r \in Slots |-> IF r = "r1" THEN database ELSE memory]

InitMirror ==
  /\ users = SeedUsers
  /\ userSeq = 4
  /\ sessions = [s \in Sessions |-> NoSession]
  /\ requirements = <<[id |-> 1, status |-> "approved", priority |-> "medium",
                       createdBy |-> 1],
                      [id |-> 2, status |-> "draft", priority |-> "medium",
                       createdBy |-> 2]>>
  /\ stages = SeedStages
  /\ candidates = <<[id |-> 1, currentStageId |-> 1, requirementId |-> 1,
                     status |-> "active"]>>
  /\ stageHistory = <<[id |-> 1, candidateId |-> 1, fromStageId |-> NoId,
                       toStageId |-> 1, movedBy |-> 3, movedAt |-> 1,
                       comments |-> "Initial application"]>>
  /\ interviews = <<>>
  /\ feedback = <<>>
  /\ comments = <<>>
  /\ requirementRecruiters = {}
  /\ rrSeq = 1
  /\ reqs = [r \in Slots |-> Idle]
  /\ entry = [slot |-> "MemStorage", tables |-> Tables]

\* storage.createRequirementRecruiter({requirementId, recruiterId})
MirrorCreateRequirementRecruiter(requirementId, recruiterId) ==
  LET data == [requirementId |-> requirementId, recruiterId |-> recruiterId]
      op == "createRequirementRecruiter"
  IN  /\ requirementRecruiters' = createRequirementRecruiter(data)
      /\ rrSeq' = rrSeq + 1
      /\ entry' = [entry EXCEPT !.tables = MemCreateRequirementRecruiter(@, data)]
      /\ Both(Returned(op, {[id |-> rrSeq, requirementId |-> requirementId,
                              recruiterId |-> recruiterId]}),
              Returned(op, {[id |-> entry.tables.rrSeq,
                              requirementId |-> requirementId,
                              recruiterId |-> recruiterId]}))
      /\ UNCHANGED <<users, userSeq, sessions, requirements, stages, candidates,
                     stageHistory, interviews, feedback, comments>>

\* storage.deleteRequirementRecruiter(requirementId, recruiterId)
MirrorDeleteRequirementRecruiter(requirementId, recruiterId) ==
  LET op == "deleteRequirementRecruiter"
  IN  /\ requirementRecruiters' =
           deleteRequirementRecruiter(requirementId, recruiterId)
      /\ entry' = [entry EXCEPT !.tables =
           MemDeleteRequirementRecruiter(@, requirementId, recruiterId)]
      /\ Both(Returned(op, {}), Returned(op, {}))
      /\ UNCHANGED <<users, userSeq, sessions, requirements, stages, candidates,
                     stageHistory, interviews, feedback, comments, rrSeq>>

\* storage.getRequirementRecruiters(requirementId): MemStorage has no such
\* method, and the call is a TypeError.
MirrorGetRequirementRecruiters(requirementId) ==
  LET op == "getRequirementRecruiters"
  IN  /\ Both(Returned(op, getRequirementRecruiters(requirementId)),
              Thrown(op, "storage.getRequirementRecruiters is not a function"))
      /\ UNCHANGED <<db, sessions, entry>>

\* storage.updateRequirementStatus(id, status)
MirrorUpdateRequirementStatus(id, status) ==
  LET op == "updateRequirementStatus"
      t == MemUpdateRequirementStatus(entry.tables, id, status)
  IN  /\ requirements' = updateRequirementStatus(id, status)
      /\ entry' = [entry EXCEPT !.tables = t]
      /\ Both(Returned(op, {q \in Range(requirements') : q.id = id}),
              Returned(op, MemGetRequirement(t, id)))
      /\ UNCHANGED <<users, userSeq, sessions, stages, candidates, stageHistory,
                     interviews, feedback, comments, requirementRecruiters, rrSeq>>

\* storage.getCandidate(id)
MirrorGetCandidate(id) ==
  LET op == "getCandidate"
  IN  /\ Both(Returned(op, getCandidate(id)),
              Returned(op, MemGetCandidate(entry.tables, id)))
      /\ UNCHANGED <<db, sessions, entry>>

\* storage.updateCandidateStage(id, stageId, userId, comments), run to its
\* end before the next operation starts.
MirrorUpdateCandidateStage(id, stageId, userId, text) ==
  LET op == "updateCandidateStage"
  IN  \E now \in Clock :
        LET t == MemUpdateCandidateStage(entry.tables, id, stageId, userId,
                                         text, now)
        IN  /\ IF getCandidate(id) = {}
                 THEN UNCHANGED <<candidates, stageHistory>>
                 ELSE /\ candidates' = setCurrentStage(id, stageId)
                      /\ stageHistory' = createStageHistory(
                           [candidateId |-> id,
                            fromStageId |->
                              (CHOOSE c \in getCandidate(id) : TRUE).currentStageId,
                            toStageId |-> stageId, movedBy |-> userId,
                            comments |-> OrNull(text)], now)
            /\ entry' = [entry EXCEPT !.tables = t]
            /\ Both(Returned(op, {c \in Range(candidates') : c.id = id}),
                    Returned(op, MemGetCandidate(t, id)))
            /\ UNCHANGED <<users, userSeq, sessions, requirements, stages,
                           interviews, feedback, comments,
                           requirementRecruiters, rrSeq>>

NextMirror ==
  \/ \E requirementId \in {1, 2} :
       /\ rrSeq < MaxAssignments
       /\ MirrorCreateRequirementRecruiter(requirementId, 2)
  \/ \E requirementId \in {1, 2} :
       MirrorDeleteRequirementRecruiter(requirementId, 2)
  \/ MirrorGetRequirementRecruiters(1)
  \/ \E id \in {1, 9} : MirrorUpdateRequirementStatus(id, "closed")
  \/ \E id \in {1, 9} : MirrorGetCandidate(id)
  \/ \E id \in {1, 9}, text \in {"good fit", ""} :
       /\ Len(stageHistory) + 1 < MaxHistory
       /\ MirrorUpdateCandidateStage(id, 2, 1, text)

SpecMirror == InitMirror /\ [][NextMirror]_vars

-----------------------------------------------------------------------------
(* User administration, one request at a time: the administrator is logged *)
(* in on s1; s2 is the session of the manager or of the recruiter.         *)

InitUsers ==
  /\ users = SeedUsers
  /\ userSeq = 4
  /\ sessions = [s \in Sessions |->
        IF s = "s1" THEN [userId |-> 1, role |-> "admin"]
                    ELSE [userId |-> 2, role |-> "manager"]]
  /\ requirements = <<>>
  /\ stages = SeedStages
  /\ candidates = <<>>
  /\ stageHistory = <<>>
  /\ interviews = <<>>
  /\ feedback = <<>>
  /\ comments = <<>>
  /\ requirementRecruiters = {}
  /\ rrSeq = 1
  /\ reqs = [r \in Slots |-> Idle]
  /\ entry = [slot |-> "", tables |-> Tables]

\* req.body.role: a role of the enum, or a string that is none.
RoleValues == {"admin", "recruiter", "owner"}

NextUsers ==
  \/ Login("r1", "s2", "recruiter", "recruiter123")
  \/ \E s \in Sessions : GetUsers("r1", s)
  \/ \E s \in Sessions, role \in RoleValues :
       PostUsers("r1", s, [username |-> "temp", password |-> "temp123",
                           role |-> role])
  \/ \E s \in Sessions, id \in {1, 2}, role \in RoleValues :
       PatchUsers("r1", s, id, [username |-> NULL, password |-> NULL,
                                role |-> role])
  \/ \E s \in Sessions, id \in {1, 2} : DeleteUsers("r1", s, id)

SpecUsers == InitUsers /\ [][NextUsers]_vars

-----------------------------------------------------------------------------
(* The dashboard (slot r1) while the recruiter (s2, slot r2) schedules     *)
(* interviews and sets their status and the administrator adds a stage.    *)

NextStats ==
  \/ \E s \in Sessions : DashboardStats("r1", s)
  \/ DashboardSteps("r1")
  \/ \E scheduledTime \in {1, 3} :
       /\ Len(interviews) < MaxInterviews
       /\ PostInterviews("r2", "s2", [candidateId |-> 1, requirementId |-> 1,
                                     scheduledTime |-> scheduledTime,
                                     status |-> NULL])
  \/ \E status \in {"scheduled", "completed"} :
       PatchInterviewStatus("r2", "s2", 1, status) /\ UNCHANGED entry
  \/ /\ Len(stages) < Len(SeedStages) + MaxRows
     /\ PostStages("r2", "s1", [order |-> 0])

SpecStats == InitData /\ [][NextStats]_vars

-----------------------------------------------------------------------------
(* Moves of the candidate of InitData between the two stages, one request  *)
(* at a time, by the administrator (s1) and by the manager or the          *)
(* recruiter (s2).                                                         *)

NextMove ==
  \/ \E username \in {"manager", "recruiter"} :
       /\ Quiescent
       /\ Login("r1", "s2", username,
                IF username = "manager" THEN "manager123" ELSE "recruiter123")
  \/ \E s \in Sessions, stageId \in {1, 2} :
       /\ Quiescent
       /\ PatchCandidateStage("r1", s, 1, stageId, NULL)
       /\ Enter("r1")
  \/ MoveSteps("r1")

SpecMove == InitData /\ [][NextMove]_vars

-----------------------------------------------------------------------------
(* Moves of the candidate of InitData, one request at a time, where the    *)
(* insert of the history row may fail.                                     *)

NextFault ==
  \/ \E stageId \in {1, 2} :
       /\ Quiescent
       /\ PatchCandidateStage("r1", "s1", 1, stageId, NULL)
       /\ Enter("r1")
  \/ MoveSteps("r1")
  \/ updateCandidateStageHistoryFails("r1")

SpecFault == InitData /\ [][NextFault]_vars

-----------------------------------------------------------------------------
(* Properties of the stage workflow *)

MOVE == "PATCH /api/candidates/:id/stage"
CREATE == "POST /api/candidates"

\* The history rows of a candidate, in the order they were written.
HistoryOf(c) == SelectSeq(stageHistory, LAMBDA h : h.candidateId = c)

\* C1: whenever no creation or move is in progress, the most recently
\* written history row of every candidate leads to its current stage.
C1_LatestRowIsCurrentStage ==
  Quiescent =>
    \A i \in DOMAIN candidates :
      LET h == HistoryOf(candidates[i].id)
      IN  /\ h # <<>>
          /\ h[Len(h)].toStageId = candidates[i].currentStageId

\* C2: the rows of a candidate start with its creation row, the only one
\* with fromStageId = null; no move row is written before it.
C2_CreationRowFirst ==
  \A i \in DOMAIN candidates :
    LET h == HistoryOf(candidates[i].id)
    IN  \A k \in DOMAIN h : (h[k].fromStageId = NoId) <=> (k = 1)

\* The latest request, when it is a finished, authenticated stage move with
\* a numeric candidate id and stage id.
LatestMove(r) ==
  /\ r = entry.slot
  /\ reqs[r].pc = "done"
  /\ reqs[r].route = MOVE
  /\ reqs[r].userId # NoId
  /\ reqs[r].id # NaN
  /\ reqs[r].stageId \notin {NoId, NaN}

CandidateExisted(r) == reqs[r].id \in DOMAIN entry.tables.candidates

StageExisted(r) ==
  \E st \in Range(entry.tables.stages) : st.id = reqs[r].stageId

\* What a move does to the tables it began with; stored is the comment as stored.
MoveOutcome(r, stored) ==
  LET q == reqs[r]
      pre == entry.tables
      old == pre.candidates[q.id]
      new == [old EXCEPT !.currentStageId = q.stageId]
  IN  /\ q.status = 200
      /\ q.body = new
      /\ stageHistory # <<>>
      /\ Tables =
           [pre EXCEPT
              !.candidates = [pre.candidates EXCEPT ![q.id] = new],
              !.stageHistory =
                 Append(pre.stageHistory,
                        [id |-> Len(pre.stageHistory) + 1,
                         candidateId |-> q.id,
                         fromStageId |-> old.currentStageId,
                         toStageId |-> q.stageId,
                         movedBy |-> q.userId,
                         movedAt |-> stageHistory[Len(stageHistory)].movedAt,
                         comments |-> stored])]

C4_MoveRejected ==
  \A r \in Slots :
    LatestMove(r) =>
      /\ ~StageExisted(r) =>
           /\ reqs[r].status = 400
           /\ reqs[r].body = Message("Stage not found")
      /\ (StageExisted(r) /\ ~CandidateExisted(r)) =>
           /\ reqs[r].status = 404
           /\ reqs[r].body = Message("Candidate not found")
      /\ (~StageExisted(r) \/ ~CandidateExisted(r)) => Tables = entry.tables

\* A move of a missing candidate to a missing stage has been answered 400,
\* while a candidate and its history exist.
C4_Witness ==
  /\ candidates # <<>>
  /\ \E r \in Slots :
       /\ LatestMove(r)
       /\ reqs[r].status = 400 /\ reqs[r].id = 9 /\ reqs[r].stageId = 9

\* Both moves of the race are answered.
BothDone == \A r \in Slots : reqs[r].pc = "done"

\* C5: two overlapping moves of one candidate both succeed and leave one
\* row each, with the request's own target; every candidate update writes
\* its request's target, and nothing else writes currentStageId, so the
\* final stage is the target of the update written last.
C5_BothMovesRecorded ==
  /\ [](BothDone =>
          /\ \A r \in Slots : reqs[r].status = 200 /\ reqs[r].body.id = 1
          /\ Len(stageHistory) = 3
          /\ \E f \in [Slots -> {2, 3}] :
               /\ \A a, b \in Slots : f[a] = f[b] => a = b
               /\ \A r \in Slots :
                    /\ stageHistory[f[r]].candidateId = 1
                    /\ stageHistory[f[r]].toStageId = reqs[r].stageId
                    /\ stageHistory[f[r]].fromStageId = reqs[r].previousStageId
                    /\ stageHistory[f[r]].movedBy = reqs[r].userId
          /\ \E r \in Slots : candidates[1].currentStageId = reqs[r].stageId)
  /\ [][/\ \A r \in Slots :
             (reqs[r].pc = "updateCandidate" /\ reqs'[r].pc # "updateCandidate")
               => candidates'[reqs[r].id].currentStageId = reqs[r].stageId
        /\ candidates' # candidates =>
             \E r \in Slots : /\ reqs[r].pc = "updateCandidate"
                              /\ reqs'[r].pc # "updateCandidate"]_vars

\* The two moves overlapped (both read stage 1 before either wrote), and the
\* update written last belongs to the request whose row was written first.
C5_Witness ==
  /\ BothDone
  /\ stageHistory[2].fromStageId = 1 /\ stageHistory[3].fromStageId = 1
  /\ stageHistory[2].toStageId = 2 /\ stageHistory[3].toStageId = 1
  /\ candidates[1].currentStageId = 2

-----------------------------------------------------------------------------
(* Properties of authentication and authorization *)

LOGIN == "POST /api/auth/login"
LOGOUT == "POST /api/auth/logout"
ME == "GET /api/auth/me"

\* In this step the request of slot r arrives.
Begins(r) == Free(r) /\ reqs'[r] # reqs[r]

\* The session of the request that arrives in slot r, as it was on arrival.
SessionOf(r) == sessions[reqs'[r].sid]

\* The request got past the middleware: the handlers of the protected routes
\* answer neither 401 nor 403 themselves.
Reached(q) == ~(q.pc = "done" /\ q.status \in {401, 403})

\* C6: on a route with allow-list R, a request whose session holds a userId
\* and a role reaches the handler iff the role is in R; a role outside R is
\* answered 403, a session without userId or role 401, and both leave the
\* tables and the sessions as they were.
C6_RoleGate ==
  [][\A r \in Slots :
       (Begins(r) /\ reqs'[r].route \in DOMAIN Allowed) =>
         LET q == reqs'[r]
             ses == SessionOf(r)
             R == Allowed[q.route]
             complete == ses.userId # NoId /\ ses.role # ""
         IN  /\ complete => (Reached(q) <=> ses.role \in R)
             /\ (complete /\ ses.role \notin R) =>
                  /\ q.pc = "done" /\ q.status = 403
                  /\ UNCHANGED <<db, sessions>>
             /\ ~complete =>
                  /\ q.pc = "done" /\ q.status = 401
                  /\ UNCHANGED <<db, sessions>>]_vars

\* A recruiter was refused a status change of an existing requirement.
C6_Witness ==
  /\ getRequirement(1) # {}
  /\ \E r \in Slots :
       /\ reqs[r].pc = "done"
       /\ reqs[r].route = "PATCH /api/requirements/:id/status"
       /\ reqs[r].id = 1
       /\ reqs[r].status = 403
       /\ sessions[reqs[r].sid] = [userId |-> 3, role |-> "recruiter"]

\* C7: every route but login, logout and me answers 401 to a request whose
\* session holds no userId, and leaves every table as it was.
C7_NoSessionNoAccess ==
  [][\A r \in Slots :
       (Begins(r) /\ reqs'[r].route \notin Open /\ SessionOf(r).userId = NoId) =>
         /\ reqs'[r].pc = "done"
         /\ reqs'[r].status = 401
         /\ UNCHANGED db]_vars

\* The deletion of an existing user was refused to a request without session,
\* while requirements exist.
C7_Witness ==
  /\ requirements # <<>>
  /\ \E r \in Slots :
       /\ reqs[r].pc = "done"
       /\ reqs[r].route = "DELETE /api/users/:id"
       /\ reqs[r].id \in DOMAIN users
       /\ reqs[r].status = 401
       /\ reqs[r].userId = NoId

\* C8 as stated: a request that passes the authenticator of a protected
\* route carries a session userId of a user that exists at that moment.
C8_AuthenticatedUserExists ==
  [][\A r \in Slots :
       (Begins(r) /\ reqs'[r].route \notin Open
          /\ ~(reqs'[r].pc = "done" /\ reqs'[r].status = 401))
         => SessionOf(r).userId \in DOMAIN users]_vars

\* The users a login's credentials match.
Matching(q) ==
  {u \in Range(users) : u.username = q.username /\ u.password = q.password}

\* C9: a login with non-empty username and password is answered 200 iff a
\* user has that username and that stored password; then the session holds
\* that user's id and role and the answer is the user without the password;
\* otherwise the answer is 401 and the session is as it was.
C9_Login ==
  [][\A r \in Slots :
       (Begins(r) /\ reqs'[r].route = LOGIN
          /\ reqs'[r].username # "" /\ reqs'[r].password # "") =>
         LET q == reqs'[r]
         IN  /\ q.pc = "done"
             /\ (q.status = 200) <=> (Matching(q) # {})
             /\ q.status = 200 =>
                  \E u \in Matching(q) :
                    /\ sessions'[q.sid] = [userId |-> u.id, role |-> u.role]
                    /\ q.body = [id |-> u.id, username |-> u.username,
                                 role |-> u.role]
                    /\ "password" \notin DOMAIN q.body
             /\ q.status # 200 =>
                  /\ q.status = 401
                  /\ sessions'[q.sid] = SessionOf(r)]_vars

\* The recruiter has signed in on a session that held no user.
C9_Witness ==
  \E r \in Slots :
    /\ reqs[r].pc = "done"
    /\ reqs[r].route = LOGIN
    /\ reqs[r].username = "recruiter"
    /\ reqs[r].status = 200
    /\ reqs[r].userId = NoId
    /\ sessions[reqs[r].sid] = [userId |-> 3, role |-> "recruiter"]

\* C10: a logout leaves its session without userId; a session without
\* userId gets one only by a login answered 200 on that session; and until
\* then every request on it to a protected route or to me is answered 401.
C10_LoggedOut ==
  [][/\ \A r \in Slots :
          (Begins(r) /\ reqs'[r].route = LOGOUT) =>
            sessions'[reqs'[r].sid].userId = NoId
     /\ \A s \in Sessions :
          (sessions[s].userId = NoId /\ sessions'[s].userId # NoId) =>
            \E r \in Slots :
              /\ Begins(r)
              /\ reqs'[r].route = LOGIN /\ reqs'[r].sid = s
              /\ reqs'[r].status = 200
     /\ \A r \in Slots :
          (Begins(r) /\ SessionOf(r).userId = NoId
             /\ reqs'[r].route \notin {LOGIN, LOGOUT}) =>
            /\ reqs'[r].pc = "done"
            /\ reqs'[r].status = 401
            /\ sessions'[reqs'[r].sid].userId = NoId]_vars

\* The administrator has logged out of a session while the other is in use.
C10_Witness ==
  \E r \in Slots :
    /\ reqs[r].pc = "done"
    /\ reqs[r].route = LOGOUT
    /\ reqs[r].userId = 1
    /\ sessions[reqs[r].sid] = NoSession
    /\ \E s \in Sessions : sessions[s].userId # NoId

-----------------------------------------------------------------------------
(* Properties of the audit trail and of referential integrity *)

\* C11: the stage history is append-only: every step keeps every row that
\* is on record, field by field and in place; rows are only added.
C11_HistoryAppendOnly ==
  [][/\ Len(stageHistory') >= Len(stageHistory)
     /\ \A i \in DOMAIN stageHistory : stageHistory'[i] = stageHistory[i]]_vars

\* After the recruiter who placed the candidate was deleted and the
\* requirement was closed, the creation row is on record next to a move row.
C11_Witness ==
  /\ Len(stageHistory) >= 2
  /\ stageHistory[1].movedBy = 3 /\ 3 \notin DOMAIN users
  /\ requirements[1].status = "closed"
  /\ stageHistory[2].fromStageId # NoId

\* C12: the rows of a candidate are strictly ordered by movedAt in the order
\* in which they were written: of two rows of one candidate, the one written
\* first has the smaller movedAt (so no two rows share a movedAt).
C12_StrictlyOrderedByMovedAt ==
  \A i \in DOMAIN candidates :
    LET h == HistoryOf(candidates[i].id)
    IN  \A j, k \in DOMAIN h : j < k => h[j].movedAt < h[k].movedAt

\* The rows of candidate c in a stage_history table, in write order.
HistoryIn(table, c) == SelectSeq(table, LAMBDA h : h.candidateId = c)

\* The requests answered in this step with success for candidate c: a
\* creation that returns candidate c (201) or a move of candidate c (200).
Succeeded(c) ==
  {r \in Slots :
     /\ reqs'[r] # reqs[r]
     /\ reqs'[r].pc = "done"
     /\ \/ reqs'[r].route = MOVE /\ reqs'[r].status = 200 /\ reqs'[r].id = c
        \/ /\ reqs'[r].route = CREATE /\ reqs'[r].status = 201
           /\ reqs'[r].body.id = c}

\* C13: a candidate has one history row per creation and one per successful
\* move.  Every row belongs to a candidate that was created; whenever no
\* request is in progress each candidate has exactly one creation row; and a
\* step adds a row for candidate c exactly when it answers a creation of c or
\* a move of c with success, the row of a move being a move row.  Hence at
\* quiescence the rows of c number 1 plus the successful moves of c.
C13_RowPerCreationAndMove ==
  /\ [](\A h \in Range(stageHistory) :
          \E i \in DOMAIN candidates : candidates[i].id = h.candidateId)
  /\ [](Quiescent =>
          \A i \in DOMAIN candidates :
            Cardinality({h \in Range(stageHistory) :
                           /\ h.candidateId = candidates[i].id
                           /\ h.fromStageId = NoId}) = 1)
  /\ [][\A c \in 1..(MaxCandidates + 1) :
          LET before == HistoryIn(stageHistory, c)
              after == HistoryIn(stageHistory', c)
          IN  /\ Len(after) = Len(before) + Cardinality(Succeeded(c))
              /\ \A r \in Succeeded(c) :
                    (after[Len(after)].fromStageId = NoId)
                      <=> (reqs'[r].route = CREATE)]_vars

C13_Witness ==
  /\ Quiescent
  /\ Len(HistoryOf(1)) = 3
  /\ \A r \in Slots : reqs[r].route = MOVE /\ reqs[r].status = 200
  /\ \E r \in Slots : reqs[r].stageId = candidates[1].currentStageId

\* The latest request is a creation that passed authentication and validation.
LatestCreate(r) ==
  /\ r = entry.slot
  /\ reqs[r].pc = "done"
  /\ reqs[r].route = CREATE
  /\ reqs[r].userId # NoId
  /\ reqs[r].requirementId # NaN /\ reqs[r].stageId # NaN

RequirementExisted(r) ==
  \E q \in Range(entry.tables.requirements) : q.id = reqs[r].requirementId

\* C14: every candidate's stage and requirement exist; a creation naming a
\* requirement or a stage that does not exist is answered 400 and leaves
\* every table as it was (no candidate, no history row).
C14_ReferencesExist ==
  /\ \A i \in DOMAIN candidates :
       /\ \E st \in Range(stages) : st.id = candidates[i].currentStageId
       /\ \E q \in Range(requirements) : q.id = candidates[i].requirementId
  /\ \A r \in Slots :
       (LatestCreate(r) /\ (~RequirementExisted(r) \/ ~StageExisted(r)))
         => /\ reqs[r].status = 400
            /\ reqs[r].body =
                 (IF RequirementExisted(r) THEN Message("Invalid stage ID")
                  ELSE Message("Invalid requirement ID"))
            /\ Tables = entry.tables

\* A creation naming requirement 9 has been refused after a candidate was
\* created and moved.
C14_Witness ==
  /\ Len(stageHistory) >= 2
  /\ candidates # <<>> /\ candidates[1].currentStageId = 2
  /\ \E r \in Slots :
       /\ LatestCreate(r) /\ reqs[r].requirementId = 9 /\ reqs[r].stageId = 1
       /\ reqs[r].status = 400

-----------------------------------------------------------------------------
(* Properties of the status routes *)

SETREQ == "PATCH /api/requirements/:id/status"
SETINT == "PATCH /api/interviews/:id/status"

\* The request of slot r is answered in this step.
Answered(r) == reqs'[r] # reqs[r] /\ reqs'[r].pc = "done"

StatusOf(table) == [i \in DOMAIN table |-> table[i].status]

\* C15: a status request changes a stored status only when its value is one
\* of the entity's enum; a request that gets past the middleware with any
\* other value, or none, is answered 400 and changes no status; and every
\* stored status is a member of its enum.
C15_StatusInEnum ==
  /\ [](/\ \A i \in DOMAIN requirements :
            requirements[i].status \in {"draft", "pending", "approved", "closed"}
        /\ \A i \in DOMAIN interviews :
            interviews[i].status \in
              {"scheduled", "completed", "canceled", "no-show"})
  /\ [][\A r \in Slots :
         (Answered(r) /\ reqs'[r].route \in {SETREQ, SETINT}) =>
           LET q == reqs'[r]
               enum == IF q.route = SETREQ
                         THEN {"draft", "pending", "approved", "closed"}
                         ELSE {"scheduled", "completed", "canceled", "no-show"}
               same == /\ StatusOf(requirements') = StatusOf(requirements)
                       /\ StatusOf(interviews') = StatusOf(interviews)
           IN  /\ ~same => (q.value \in enum /\ q.status = 200)
               /\ (Reached(q) /\ q.value \notin enum) =>
                     (q.status = 400 /\ same)]_vars

\* The recruiter's request to set an interview to "draft" has been refused,
\* after the interview and a requirement had their status changed.
C15_Witness ==
  /\ reqs["r1"].route = SETINT /\ reqs["r1"].value = "draft"
  /\ reqs["r1"].id = 1 /\ reqs["r1"].status = 400
  /\ sessions[reqs["r1"].sid].role = "recruiter"
  /\ interviews[1].status = "no-show"
  /\ requirements[1].status = "pending"

\* C16: no transition of the requirement status is refused: an administrator
\* or a manager who sets an existing requirement, whatever its status, to any
\* of the four values is answered 200 with the updated row, the requirement
\* then has that status, and no other row changes.
C16_AnyStatusToAny ==
  [][\A r \in Slots :
       (/\ Answered(r) /\ reqs'[r].route = SETREQ
        /\ sessions[reqs'[r].sid].role \in {"admin", "manager"}
        /\ reqs'[r].id \in DOMAIN requirements
        /\ reqs'[r].value \in {"draft", "pending", "approved", "closed"}) =>
         LET q == reqs'[r]
         IN  /\ q.status = 200
             /\ requirements' =
                  [requirements EXCEPT ![q.id] = [@ EXCEPT !.status = q.value]]
             /\ q.body = requirements'[q.id]]_vars

\* The manager has set the closed requirement back to draft, in one request.
C16_Witness ==
  /\ entry.slot = "r1"
  /\ reqs["r1"].route = SETREQ /\ reqs["r1"].status = 200
  /\ reqs["r1"].id = 2 /\ reqs["r1"].value = "draft"
  /\ sessions[reqs["r1"].sid].role = "manager"
  /\ entry.tables.requirements[2].status = "closed"
  /\ requirements[2].status = "draft"

-----------------------------------------------------------------------------
(* Properties of user administration *)

POSTUSER == "POST /api/users"
DELUSER == "DELETE /api/users/:id"

\* C17: POST /api/users from a session of a manager or a recruiter is
\* answered 403 and creates no user; from a session of an administrator,
\* with a body the schema accepts and a username no user has, it is answered
\* 201, exactly one user is added, with the username of the body, and the
\* user returned is that user without a password field.
C17_OnlyAdminCreatesUsers ==
  [][\A r \in Slots :
       (Begins(r) /\ reqs'[r].route = POSTUSER /\ SessionOf(r).userId # NoId) =>
         LET q == reqs'[r]
             new == DOMAIN users' \ DOMAIN users
         IN  /\ SessionOf(r).role \in {"manager", "recruiter"} =>
                  (q.status = 403 /\ users' = users)
             /\ (/\ SessionOf(r).role = "admin"
                 /\ q.username # NULL /\ q.password # NULL
                 /\ q.value \in {"admin", "manager", "recruiter", NULL}
                 /\ \A u \in DOMAIN users : users[u].username # q.username) =>
                  /\ q.status = 201
                  /\ Cardinality(new) = 1
                  /\ \A u \in DOMAIN users :
                       u \in DOMAIN users' /\ users'[u] = users[u]
                  /\ \A u \in new :
                       /\ users'[u].username = q.username
                       /\ users'[u].password = q.password
                       /\ q.body.id = u /\ q.body.username = q.username
                  /\ "password" \notin DOMAIN q.body]_vars

\* The administrator has created user "temp" while a manager is logged in.
C17_Witness ==
  /\ reqs["r1"].route = POSTUSER /\ reqs["r1"].status = 201
  /\ reqs["r1"].sid = "s1"
  /\ sessions["s2"].role = "manager"
  /\ \E u \in DOMAIN users : users[u].username = "temp" /\ u > 3

-----------------------------------------------------------------------------
(* Properties of the assignment of recruiters *)

ASSIGN == "POST /api/requirements/:id/recruiters"
UNASSIGN == "DELETE /api/requirements/:id/recruiters/:recruiterId"

\* The rows of a join table for a requirement and a recruiter.
Pair(table, requirementId, recruiterId) ==
  {a \in table : a.requirementId = requirementId /\ a.recruiterId = recruiterId}

\* C19: an assignment of a recruiter who is already assigned to the
\* requirement is answered 400, and the join table then holds exactly one
\* row for the pair.
C19_NoDuplicateAssignment ==
  [][\A r \in Slots :
       (/\ Begins(r) /\ reqs'[r].route = ASSIGN
        /\ SessionOf(r).role \in {"admin", "manager"}
        /\ Pair(requirementRecruiters, reqs'[r].requirementId, reqs'[r].id) # {}) =>
         /\ reqs'[r].status = 400
         /\ Cardinality(Pair(requirementRecruiters', reqs'[r].requirementId,
                              reqs'[r].id)) = 1]_vars

\* C20: an unassignment removes exactly the rows that match both ids; every
\* other row stays.
C20_UnassignRemovesThePair ==
  [][\A r \in Slots :
       (/\ Begins(r) /\ reqs'[r].route = UNASSIGN
        /\ SessionOf(r).role \in {"admin", "manager"}) =>
         requirementRecruiters' =
           requirementRecruiters
             \ Pair(requirementRecruiters, reqs'[r].requirementId, reqs'[r].id)]_vars

-----------------------------------------------------------------------------
(* Properties of the stored roles *)

PATCHUSER == "PATCH /api/users/:id"

\* C21: every stored role is admin, manager or recruiter, and a creation or
\* an update of a user whose body carries another role is answered 400 and
\* changes no user.
C21_RolesInEnum ==
  /\ [](\A u \in DOMAIN users :
          users[u].role \in {"admin", "manager", "recruiter"})
  /\ [][\A r \in Slots :
         (/\ Begins(r) /\ reqs'[r].route \in {POSTUSER, PATCHUSER}
          /\ Reached(reqs'[r])
          /\ reqs'[r].value \notin {"admin", "manager", "recruiter", NULL}) =>
           (reqs'[r].status = 400 /\ users' = users)]_vars

\* C28: the role gate follows the stored role: a request of a session whose
\* user exists gets past the gate of a route with an allow-list iff the
\* user's stored role is on the list.
C28_GateFollowsStoredRole ==
  [][\A r \in Slots :
       (/\ Begins(r) /\ reqs'[r].route \in DOMAIN Allowed
        /\ SessionOf(r).userId \in DOMAIN users) =>
         (Reached(reqs'[r])
            <=> users[SessionOf(r).userId].role \in Allowed[reqs'[r].route])]_vars

\* C29: at least one user with role admin exists.
C29_AnAdminRemains ==
  \E u \in DOMAIN users : users[u].role = "admin"

-----------------------------------------------------------------------------
(* Properties of the dashboard *)

STATS == "GET /api/dashboard/stats"

RECURSIVE SumOfCounts(_)
SumOfCounts(rows) ==
  IF rows = <<>> THEN 0 ELSE rows[1].count + SumOfCounts(Tail(rows))

\* C23: in every answer of the dashboard the count of a stage is the number
\* of the candidates read that are in that stage, the counts by stage sum to
\* the total of candidates, active + hired + rejected is at most that total,
\* upcoming is at most the total of interviews, and today at most upcoming.
C23_DashboardCounts ==
  \A r \in Slots :
    (reqs[r].pc = "done" /\ reqs[r].route = STATS /\ reqs[r].status = 200) =>
      LET b == reqs[r].body
      IN  /\ \A i \in DOMAIN b.candidates.byStage :
               b.candidates.byStage[i].count =
                 Cardinality({c \in Range(reqs[r].seen.candidates) :
                                c.currentStageId = b.candidates.byStage[i].stageId})
          /\ SumOfCounts(b.candidates.byStage) = b.candidates.total
          /\ b.candidates.active + b.candidates.hired + b.candidates.rejected
               <= b.candidates.total
          /\ b.interviews.upcoming <= b.interviews.total
          /\ b.interviews.today <= b.interviews.upcoming

-----------------------------------------------------------------------------
(* Properties of the direction of a move *)

OrderOf(stageId) ==
  (CHOOSE st \in Range(entry.tables.stages) : st.id = stageId).order

\* C24: a move to the stage the candidate is in, or to a stage of lower
\* order, by a session of any role, is answered 200 with the updated
\* candidate and appends one row from the stage before to the target (so
\* fromStageId = toStageId when the stage is the same).
C24_AnyDirectionAnyRole ==
  \A r \in Slots :
    (/\ LatestMove(r) /\ CandidateExisted(r) /\ StageExisted(r)
     /\ sessions[reqs[r].sid].role \in {"admin", "manager", "recruiter"}
     /\ OrderOf(reqs[r].stageId)
          <= OrderOf(entry.tables.candidates[reqs[r].id].currentStageId)) =>
      /\ MoveOutcome(r, IF reqs[r].comments = "" THEN NULL ELSE reqs[r].comments)
      /\ stageHistory[Len(stageHistory)].toStageId = reqs[r].stageId
      /\ (reqs[r].stageId = entry.tables.candidates[reqs[r].id].currentStageId) =>
           stageHistory[Len(stageHistory)].fromStageId =
             stageHistory[Len(stageHistory)].toStageId

\* The manager has moved the candidate back from stage 2 to stage 1.
C24_Witness ==
  /\ LatestMove("r1") /\ reqs["r1"].status = 200
  /\ sessions[reqs["r1"].sid].role = "manager"
  /\ entry.tables.candidates[1].currentStageId = 2
  /\ reqs["r1"].stageId = 1
  /\ stageHistory[Len(stageHistory)].fromStageId = 2

\* The recruiter has moved the candidate to the stage it was in.
C24_WitnessSameStage ==
  /\ LatestMove("r1") /\ reqs["r1"].status = 200
  /\ sessions[reqs["r1"].sid].role = "recruiter"
  /\ entry.tables.candidates[1].currentStageId = reqs["r1"].stageId

-----------------------------------------------------------------------------
(* Properties of a move that stops between its two writes *)

\* The latest request is a move that stopped after the update of the candidate.
Stopped(r) == LatestMove(r) /\ reqs[r].status = 500

\* C25: the update of the candidate and the insert of the history row are
\* separate writes.  A move that stops after the first leaves the candidate
\* in the target stage and the history as it was; afterwards a step adds a
\* row only as the last step of a move answered 200, and that row is the
\* move's own, from the stage the candidate was in when the move read it (the
\* unrecorded target, after a stopped move) to the move's target: the row of
\* the stopped move is never written.
C25_NoRepairAfterPartialMove ==
  /\ [](\A r \in Slots :
          Stopped(r) =>
            /\ candidates =
                 [entry.tables.candidates EXCEPT
                    ![reqs[r].id].currentStageId = reqs[r].stageId]
            /\ stageHistory = entry.tables.stageHistory)
  /\ [](\A r \in Slots :
          (LatestMove(r) /\ reqs[r].status = 200) =>
            stageHistory[Len(stageHistory)].fromStageId =
              entry.tables.candidates[reqs[r].id].currentStageId)
  /\ [][stageHistory' # stageHistory =>
          \E r \in Slots :
            /\ reqs[r].pc = "createStageHistory"
            /\ reqs'[r].pc = "done" /\ reqs'[r].status = 200
            /\ Len(stageHistory') = Len(stageHistory) + 1
            /\ SubSeq(stageHistory', 1, Len(stageHistory)) = stageHistory
            /\ LET row == stageHistory'[Len(stageHistory')]
               IN  /\ row.candidateId = reqs[r].id
                   /\ row.fromStageId = reqs[r].previousStageId
                   /\ row.toStageId = reqs[r].stageId]_vars

\* A move to stage 2 stopped after its update and a later move back to
\* stage 1 succeeded: the history goes from "to stage 1" to "from stage 2",
\* and no row leads to stage 2.
C25_Witness ==
  /\ LatestMove("r1") /\ reqs["r1"].status = 200
  /\ Len(stageHistory) = 2
  /\ stageHistory[1].toStageId = 1
  /\ stageHistory[2].fromStageId = 2 /\ stageHistory[2].toStageId = 1
  /\ candidates[1].currentStageId = 1

-----------------------------------------------------------------------------
(* Properties of overlapping requests *)

\* C26: the rows of a candidate, in the order they were written, form a
\* chain: the first has fromStageId = null and every later one starts in the
\* stage the row before it leads to.
C26_HistoryIsAChain ==
  \A i \in DOMAIN candidates :
    LET h == HistoryOf(candidates[i].id)
    IN  h # <<>> =>
          /\ h[1].fromStageId = NoId
          /\ \A k \in 2..Len(h) : h[k].fromStageId = h[k - 1].toStageId

\* C27: the join table holds at most one row per (requirementId,
\* recruiterId) pair, whatever the interleaving of assign and unassign
\* requests.
C27_OneRowPerPair ==
  \A a \in requirementRecruiters :
    Cardinality(Pair(requirementRecruiters, a.requirementId, a.recruiterId)) <= 1

-----------------------------------------------------------------------------
(* Properties of the stored author *)

POSTREQUIREMENT == "POST /api/requirements"
POSTFEEDBACK == "POST /api/feedback"
POSTCOMMENT == "POST /api/comments"

\* The request that begins in this step is one of route, is let through by
\* the role gate, and names a row that exists where the route checks one.
Authorised(r, route) ==
  /\ Begins(r) /\ reqs'[r].route = route
  /\ Reached(reqs'[r])
  /\ route = POSTFEEDBACK => getInterview(reqs'[r].id) # {}
  /\ route = POSTCOMMENT => getCandidate(reqs'[r].id) # {}

\* The row each route stores for the request of slot r, with the user of
\* its session as the author.
RequirementBy(r) ==
  [id |-> Len(requirements) + 1, status |-> "draft", priority |-> "medium",
   createdBy |-> SessionOf(r).userId]

FeedbackBy(r) ==
  [id |-> Len(feedback) + 1, interviewId |-> reqs'[r].id,
   providedBy |-> SessionOf(r).userId]

CommentBy(r) ==
  [id |-> Len(comments) + 1, candidateId |-> reqs'[r].id,
   userId |-> SessionOf(r).userId]

\* A history row is written by a request at createStageHistory, with the
\* user of that request's session as movedBy.
MovedByTheSession ==
  stageHistory' # stageHistory =>
    \E r \in Slots :
      /\ reqs[r].pc = "createStageHistory" /\ reqs'[r].pc = "done"
      /\ Len(stageHistory') = Len(stageHistory) + 1
      /\ stageHistory'[Len(stageHistory')].movedBy = sessions[reqs[r].sid].userId

\* The stored row of every successful request has the session's user as
\* its author.
StoredAuthorIsTheSession ==
  /\ MovedByTheSession
  /\ \A r \in Slots :
       /\ (Authorised(r, POSTREQUIREMENT) /\ reqs'[r].status = 201) =>
            requirements' = Append(requirements, RequirementBy(r))
       /\ (Authorised(r, POSTFEEDBACK) /\ reqs'[r].status = 201) =>
            feedback' = Append(feedback, FeedbackBy(r))
       /\ (Authorised(r, POSTCOMMENT) /\ reqs'[r].status = 201) =>
            comments' = Append(comments, CommentBy(r))

\* C30 as stated: the stored author is the session's user, and requests
\* that differ only in the author field of the body store the same row, so
\* an authorised request stores its row whatever that field holds.
C30_SameRowForAnyAuthorField ==
  [][/\ StoredAuthorIsTheSession
     /\ \A r \in Slots :
          /\ Authorised(r, POSTREQUIREMENT) =>
               requirements' = Append(requirements, RequirementBy(r))
          /\ Authorised(r, POSTFEEDBACK) =>
               feedback' = Append(feedback, FeedbackBy(r))
          /\ Authorised(r, POSTCOMMENT) =>
               comments' = Append(comments, CommentBy(r))]_vars

\* C30, amended: the stored author is the session's user, and requests
\* that differ only in the author field of the body store the same row when
\* that field holds an integer; a request whose author field is missing or
\* not an integer is answered 400 and stores nothing.
C30_AuthorIsTheSession ==
  [][/\ StoredAuthorIsTheSession
     /\ \A r \in Slots :
          /\ Authorised(r, POSTREQUIREMENT) =>
               IF reqs'[r].author # NaN
                 THEN requirements' = Append(requirements, RequirementBy(r))
                 ELSE reqs'[r].status = 400 /\ requirements' = requirements
          /\ Authorised(r, POSTFEEDBACK) =>
               IF reqs'[r].author # NaN
                 THEN feedback' = Append(feedback, FeedbackBy(r))
                 ELSE reqs'[r].status = 400 /\ feedback' = feedback
          /\ Authorised(r, POSTCOMMENT) =>
               IF reqs'[r].author # NaN
                 THEN comments' = Append(comments, CommentBy(r))
                 ELSE reqs'[r].status = 400 /\ comments' = comments]_vars

\* The recruiter's feedback, sent with providedBy 9, is stored as provided
\* by user 3.
C30_Witness ==
  /\ reqs["r1"].pc = "done" /\ reqs["r1"].route = POSTFEEDBACK
  /\ reqs["r1"].status = 201 /\ reqs["r1"].author = 9
  /\ reqs["r1"].userId = 3
  /\ feedback # <<>> /\ feedback[Len(feedback)].providedBy = 3

-----------------------------------------------------------------------------
(* Properties of the two stores *)

\* C22: after every sequence of IStorage operations applied to both stores,
\* MemStorage has given back what DatabaseStorage gave back and holds the
\* same rows.
C22_MemStorageMirrorsDatabase ==
  /\ reqs["r1"].pc = reqs["r2"].pc
  /\ reqs["r1"].pc = "done" => reqs["r1"].body = reqs["r2"].body
  /\ entry.tables = Tables

====
